---- MODULE Spec2Model ----
(***************************************************************************)
(* Task/team management API: users, projects with embedded members, tasks  *)
(* and the activity log, as kept in the document store, and the service    *)
(* methods that read and write them.  One action is one service call,      *)
(* executed to completion (requests run one at a time in Spec, SpecUsers   *)
(* and SpecTasks).                                                         *)
(*                                                                         *)
(* SpecCreate interleaves the steps of concurrent createProject calls.    *)
(* SpecCreateTask, SpecAdminRace, SpecStatusRace and SpecAddRace do the    *)
(* same for createTask, updateRole/deactivateUser, updateTask and          *)
(* addMember; SpecClient interleaves two runs of the web client's response *)
(* interceptor with the server's refreshTokens.                            *)
(*                                                                         *)
(* Identifiers.  A document id is an ObjectId; the model writes it as a    *)
(* short string ("u1", "p1", "t1").  The same id travels through requests  *)
(* as a 24 character hex STRING, and the code compares such strings with   *)
(* ===.  A hex string is modelled as <<id, form>>: form "lc" is the        *)
(* lowercase spelling ObjectId.toString() produces, "uc" an uppercase      *)
(* spelling of the same id (accepted by every /^[0-9a-fA-F]{24}$/ pattern  *)
(* and by the driver's cast), "doc" the text a populated sub-document      *)
(* prints as.  The ids of the model all contain a hex letter, as ObjectIds *)
(* generated by the driver practically always do.                          *)
(***************************************************************************)
EXTENDS Integers, Sequences, FiniteSets

VARIABLES
    users,       \* users collection: id -> [role, isActive]
    projects,    \* projects collection: id -> project document
    tasks,       \* tasks collection: id -> task document
    activities,  \* activities collection, in insertion order
    ids,         \* how many project and task ids the driver has generated
    now,         \* the clock: one tick per committed mutation
    res,         \* the outcome of the latest service call
    calls,       \* service calls in flight between two awaits: id -> frame
    tokens,      \* the tokens issued so far (clients keep them)
    localStorage \* the web client's stored tokens: [accessToken, refreshToken]

vars ==
    <<users, projects, tasks, activities, ids, now, res, calls, tokens, localStorage>>

----------------------------------------------------------------------------
(* Bounds *)

\* The clock value at which the user, project and task services stop
\* accepting writes: the number of committed mutations a run explores.
MaxClockUsers == 3
MaxClockProjects == 2
MaxClockTasks == 3
MaxClockAuth == 3


----------------------------------------------------------------------------
(* Domains *)

UserIds == {"u1", "u2", "u3"}
\* An id no user document has (a request may name it).
GhostUser == "u9"
\* The n-th id the driver generates for a project, for a task.
ProjectId(n) == <<"p", n>>
TaskId(n) == <<"t", n>>
\* A well-formed id no project document has.
GhostProject == <<"p", 0>>
NoId == "none"
Null == "null"
\* The browser's localStorage with neither token in it.
NoStorage == [accessToken |-> << >>, refreshToken |-> << >>]

SystemRoles == {"admin", "member", "viewer"}
ProjectRoles == {"owner", "admin", "member", "viewer"}
MemberRoleInputsWithOwner == ProjectRoles

\* Roles a request body may carry for a member (addMemberSchema,
\* updateMemberRoleSchema).
MemberRoleInputs == {"admin", "member", "viewer"}
Visibilities == {"private", "public"}
TaskStatuses == {"backlog", "todo", "in_progress", "in_review", "done", "cancelled"}
Priorities == {"low", "medium", "high", "urgent"}

----------------------------------------------------------------------------
(* Id strings *)

\* ObjectId.prototype.toString(): the lowercase hex spelling.
IdToString(oid) == <<oid, "lc">>

\* toString() of a populated reference: the printed document, never an id.
DocToString(oid) == <<oid, "doc">>

\* The driver's cast of a hex string to an ObjectId ignores letter case.
CastObjectId(s) == s[1]

\* The spellings of id x a request can carry.
HexStrings(S) == {<<x, f>> : x \in S, f \in {"lc", "uc"}}

----------------------------------------------------------------------------
(* Responses *)

\* What the caller of a service method gets: "ok", or the kind of ApiError
\* thrown (NotFound 404, Forbidden 403, Conflict 409, BadRequest 400).
EmptyMap == [x \in {} |-> x]
Put(map, k, v) == [x \in DOMAIN map \cup {k} |-> IF x = k THEN v ELSE map[x]]
Remove(map, k) == [x \in DOMAIN map \ {k} |-> map[x]]
Min(S) == CHOOSE x \in S : \A y \in S : x <= y

Response(op, err) == [op |-> op, err |-> err]

ActivityLogUpsert(action, actor, entityType, entityId, project) ==
    LET record == [action |-> action, actor |-> actor, entityType |-> entityType,
                   entityId |-> entityId, project |-> project, createdAt |-> now]
    IN  IF activities = << >> THEN <<record>>
        ELSE [activities EXCEPT ![Len(activities)] = record]

\* Activity.log(data): Activity.create appends one document.
ActivityLog(action, actor, entityType, entityId, project) ==
    Append(activities,
           [action |-> action, actor |-> actor, entityType |-> entityType,
            entityId |-> entityId, project |-> project, createdAt |-> now])

----------------------------------------------------------------------------
(* Users *)

\* UserRepository.countByRole(): active users per role.  A role no active
\* user holds has no key in the result: the model writes that undefined
\* count as 0, and IsDefined tells it from a count.
IsDefined(count) == count > 0

CountByRoleAllUsers(role) ==
    Cardinality({u \in DOMAIN users : users[u].role = role})

CountByRole(role) ==
    Cardinality({u \in DOMAIN users : users[u].isActive /\ users[u].role = role})

AtMostOneOffByOne(count) == IsDefined(count) /\ count < 1

\* `roleCounts.admin <= 1`; `undefined <= 1` is false in JavaScript.
AtMostOne(count) == IsDefined(count) /\ count <= 1

\* UserService.updateRole(userId, newRole, actorId)
UpdateRole(userId, newRole, actorId) ==
    /\ UNCHANGED <<projects, tasks, ids, calls, tokens, localStorage>>
    /\ IF userId \notin DOMAIN users
       THEN /\ res' = Response("updateRole", "NotFound")
            /\ UNCHANGED <<users, activities, now>>
       ELSE IF users[userId].role = "admin" /\ newRole # "admin"
               /\ AtMostOne(CountByRole("admin"))
       THEN /\ res' = Response("updateRole", "BadRequest")
            /\ UNCHANGED <<users, activities, now>>
       ELSE /\ now < MaxClockUsers
            /\ users' = [users EXCEPT ![userId].role = newRole]
            /\ activities' = ActivityLog("user.role_change", actorId, "user", userId, Null)
            /\ now' = now + 1
            /\ res' = Response("updateRole", "ok")

\* UserService.deactivateUser(userId, actorId)
DeactivateUser(userId, actorId) ==
    /\ UNCHANGED <<projects, tasks, ids, calls, tokens, localStorage>>
    /\ IF userId \notin DOMAIN users
       THEN /\ res' = Response("deactivateUser", "NotFound")
            /\ UNCHANGED <<users, activities, now>>
       ELSE IF users[userId].role = "admin" /\ AtMostOne(CountByRole("admin"))
       THEN /\ res' = Response("deactivateUser", "BadRequest")
            /\ UNCHANGED <<users, activities, now>>
       ELSE /\ now < MaxClockUsers
            /\ users' = [users EXCEPT ![userId].isActive = FALSE]
            /\ activities' = ActivityLog("user.delete", actorId, "user", userId, Null)
            /\ now' = now + 1
            /\ res' = Response("deactivateUser", "ok")

NoResponse == Response("none", "ok")

ActiveAdmins == {u \in DOMAIN users : users[u].isActive /\ users[u].role = "admin"}

\* Two admins and one user of any role, all active (isActive defaults to
\* true at registration); every other table with an active admin that the
\* two operations can produce is reached from these.
InitUsers ==
    /\ \E r \in SystemRoles :
          users = [u \in UserIds |->
                      [role |-> IF u = "u3" THEN r ELSE "admin", isActive |-> TRUE]]
    /\ projects = [x \in {} |-> x]
    /\ tasks = [x \in {} |-> x]
    /\ activities = << >>
    /\ ids = [project |-> 0, task |-> 0]
    /\ now = 0
    /\ res = NoResponse
    /\ calls = EmptyMap
    /\ tokens = {}
    /\ localStorage = NoStorage

\* The admin whose requests SpecUsers follows.
AdminActors == {"u1"}

DoUpdateRole ==
    \E userId \in UserIds \cup {GhostUser}, newRole \in SystemRoles, actorId \in AdminActors :
        UpdateRole(userId, newRole, actorId)

DoDeactivateUser ==
    \E userId \in UserIds \cup {GhostUser}, actorId \in AdminActors :
        DeactivateUser(userId, actorId)

NextUsers == DoUpdateRole \/ DoDeactivateUser

SpecUsers == InitUsers /\ [][NextUsers]_vars

----------------------------------------------------------------------------
(* Concurrent updateRole and deactivateUser calls *)

\* Two admin requests the server handles at the same time.
AdminCallIds == {"r1", "r2"}

\* The frame of an updateRole or deactivateUser call between two awaits:
\* beforeRole is the role of the document findById returned, counted tells
\* whether countByRole was awaited and count is its admin entry.
UserFrame(op, pc, userId, newRole, actorId, beforeRole, counted, count, err) ==
    [op |-> op, pc |-> pc, userId |-> userId, newRole |-> newRole,
     actorId |-> actorId, beforeRole |-> beforeRole, counted |-> counted,
     count |-> count, err |-> err]

\* The condition under which the operation asks for the role counts.
NeedsAdminCount(op, role, newRole) ==
    role = "admin" /\ (op = "deactivateUser" \/ newRole # "admin")

CountAtWrite(r) == CountByRole("admin")

\* roleCounts.admin as the call holds it: the count the aggregate returned.
CountRead(r) == calls[r].count

\* Either operation up to its first await: userRepository.findById.
UserFindById(r, op, userId, newRole, actorId) ==
    /\ r \notin DOMAIN calls
    /\ IF userId \notin DOMAIN users
       THEN /\ calls' = Put(calls, r, UserFrame(op, "done", userId, newRole, actorId,
                                                Null, FALSE, 0, "NotFound"))
            /\ res' = Response(op, "NotFound")
       ELSE /\ calls' = Put(calls, r,
                   UserFrame(op,
                             IF NeedsAdminCount(op, users[userId].role, newRole)
                             THEN "count" ELSE "write",
                             userId, newRole, actorId, users[userId].role,
                             FALSE, 0, "ok"))
            /\ UNCHANGED res
    /\ UNCHANGED <<users, projects, tasks, activities, ids, now, tokens, localStorage>>

\* userRepository.countByRole(): the aggregate runs on the table as it is.
UserCountByRole(r) ==
    /\ r \in DOMAIN calls
    /\ calls[r].pc = "count"
    /\ calls' = [calls EXCEPT ![r].pc = "write", ![r].counted = TRUE,
                              ![r].count = CountByRole("admin")]
    /\ UNCHANGED <<users, projects, tasks, activities, ids, now, res, tokens, localStorage>>

\* The test of the count the call holds, then updateById or softDelete.
UserWrite(r) ==
    /\ r \in DOMAIN calls
    /\ calls[r].pc = "write"
    /\ IF calls[r].counted /\ AtMostOne(CountRead(r))
       THEN /\ calls' = [calls EXCEPT ![r].pc = "done", ![r].err = "BadRequest"]
            /\ res' = Response(calls[r].op, "BadRequest")
            /\ UNCHANGED <<users, now>>
       ELSE /\ users' = IF calls[r].op = "updateRole"
                        THEN [users EXCEPT ![calls[r].userId].role = calls[r].newRole]
                        ELSE [users EXCEPT ![calls[r].userId].isActive = FALSE]
            /\ now' = now + 1
            /\ calls' = [calls EXCEPT ![r].pc = "log"]
            /\ UNCHANGED res
    /\ UNCHANGED <<projects, tasks, activities, ids, tokens, localStorage>>

\* Activity.log and the return.
UserLog(r) ==
    /\ r \in DOMAIN calls
    /\ calls[r].pc = "log"
    /\ activities' = ActivityLog(IF calls[r].op = "updateRole"
                                 THEN "user.role_change" ELSE "user.delete",
                                 calls[r].actorId, "user", calls[r].userId, Null)
    /\ calls' = [calls EXCEPT ![r].pc = "done"]
    /\ res' = Response(calls[r].op, "ok")
    /\ UNCHANGED <<users, projects, tasks, ids, now, tokens, localStorage>>

DoUpdateRoleFindById ==
    \E r \in AdminCallIds, userId \in UserIds \cup {GhostUser},
       newRole \in SystemRoles, actorId \in AdminActors :
        UserFindById(r, "updateRole", userId, newRole, actorId)

DoDeactivateUserFindById ==
    \E r \in AdminCallIds, userId \in UserIds \cup {GhostUser}, actorId \in AdminActors :
        UserFindById(r, "deactivateUser", userId, Null, actorId)

DoUserCountByRole == \E r \in AdminCallIds : UserCountByRole(r)

DoUserWrite == \E r \in AdminCallIds : UserWrite(r)

DoUserLog == \E r \in AdminCallIds : UserLog(r)

NextAdminRace ==
    \/ DoUpdateRoleFindById
    \/ DoDeactivateUserFindById
    \/ DoUserCountByRole
    \/ DoUserWrite
    \/ DoUserLog

SpecAdminRace == InitUsers /\ [][NextAdminRace]_vars

----------------------------------------------------------------------------
(* Projects *)

\* A reference as a loaded document holds it: the ObjectId, or the
\* referenced document when the query populated the path.
Ref(oid, populated) == [id |-> oid, populated |-> populated]

RefToString(ref) ==
    IF ref.populated THEN DocToString(ref.id) ELSE IdToString(ref.id)

\* ProjectRepository.findById(id, {populate: ['owner', 'members']}) when
\* populate is TRUE, ProjectRepository.findById(id) when it is FALSE.
FindProjectById(pid, populate) ==
    LET d == projects[pid]
    IN  [owner |-> Ref(d.owner, populate),
         members |-> [i \in DOMAIN d.members |->
                         [user |-> Ref(d.members[i].user, populate),
                          role |-> d.members[i].role]],
         visibility |-> d.visibility]

\* projectSchema.methods.isMember(userId)
IsMember(doc, userId) ==
    \/ RefToString(doc.owner) = userId
    \/ \E i \in DOMAIN doc.members : RefToString(doc.members[i].user) = userId

\* projectSchema.methods.getMemberRole(userId)
GetMemberRole(doc, userId) ==
    IF RefToString(doc.owner) = userId
    THEN "owner"
    ELSE LET hits == {i \in DOMAIN doc.members :
                         RefToString(doc.members[i].user) = userId}
         IN  IF hits = {} THEN Null ELSE doc.members[Min(hits)].role

\* `project.owner.toString() !== actorId`, negated: the caller is the owner.
ActorIsOwner(doc, actorId) == RefToString(doc.owner) = actorId

OwnerOrAnyMember(doc, actorId) ==
    ActorIsOwner(doc, actorId) \/ GetMemberRole(doc, actorId) # Null

\* The "owner or admin only" gate of updateProject, addMember, removeMember.
OwnerOrAdmin(doc, actorId) ==
    ActorIsOwner(doc, actorId) \/ GetMemberRole(doc, actorId) = "admin"

IsSelfRemovalNever(actorId, memberId) == FALSE

\* `actorId === memberId` of removeMember.
IsSelfRemoval(actorId, memberId) == actorId = memberId

TargetsOwnerNever(doc, memberId) == FALSE

\* `project.owner.toString() === memberId` of removeMember and
\* updateMemberRole.
TargetsOwner(doc, memberId) == RefToString(doc.owner) = memberId

\* ProjectRepository.findByKey(key): some project has the key.
FindByKey(key) == \E p \in DOMAIN projects : projects[p].key = key

\* ProjectRepository.addMember: $push of one member sub-document.
RepoAddMember(members, memberData) ==
    Append(members, [user |-> CastObjectId(memberData.userId),
                     role |-> memberData.role, joinedAt |-> now])

\* ProjectRepository.removeMember: $pull of every member of that user.
RepoRemoveMember(members, userId) ==
    LET Keep(m) == m.user # CastObjectId(userId)
    IN  SelectSeq(members, Keep)

\* ProjectRepository.updateMemberRole: the positional $ sets the role of the
\* first member of that user.
RepoUpdateMemberRole(members, userId, newRole) ==
    LET hits == {i \in DOMAIN members : members[i].user = CastObjectId(userId)}
    IN  [members EXCEPT ![Min(hits)].role = newRole]

AnswerAndLog(op, err) ==
    /\ res' = Response(op, err)
    /\ activities' = ActivityLog(op, NoId, "project", NoId, Null)
    /\ UNCHANGED <<tokens, localStorage, calls, users, projects, tasks, ids, now>>

\* The call answers without having written anything.
Answer(op, err) ==
    /\ res' = Response(op, err)
    /\ UNCHANGED <<tokens, localStorage, calls, users, projects, tasks, activities, ids, now>>

\* ProjectService.createProject(projectData, ownerId)
CreateProject(projectData, ownerId) ==
    IF FindByKey(projectData.key)
    THEN Answer("createProject", "Conflict")
    ELSE /\ now < MaxClockProjects
         /\ LET pid == ProjectId(ids.project + 1)
            IN  /\ projects' = Put(projects, pid,
                       [name |-> projectData.name, key |-> projectData.key,
                        owner |-> CastObjectId(ownerId), members |-> << >>,
                        visibility |-> projectData.visibility, status |-> "active",
                        taskCount |-> 0, completedTaskCount |-> 0])
                /\ activities' = ActivityLog("project.create", CastObjectId(ownerId),
                                             "project", pid, pid)
                /\ res' = Response("createProject", "ok")
         /\ ids' = [ids EXCEPT !.project = @ + 1]
         /\ now' = now + 1
         /\ UNCHANGED <<tokens, localStorage, calls, users, tasks>>

\* ProjectService.getProjectById(projectId, userId)
GetProjectById(pid, userId) ==
    IF pid \notin DOMAIN projects
    THEN Answer("getProjectById", "NotFound")
    ELSE LET project == FindProjectById(pid, TRUE)
         IN  IF project.visibility = "private" /\ ~IsMember(project, userId)
             THEN Answer("getProjectById", "Forbidden")
             ELSE Answer("getProjectById", "ok")

\* A patch sets the fields it names and leaves the others.
ApplyPatch(doc, patch) ==
    [f \in DOMAIN doc |-> IF f \in DOMAIN patch THEN patch[f] ELSE doc[f]]

\* ProjectService.updateProject(projectId, updateData, userId)
UpdateProject(pid, updateData, userId) ==
    IF pid \notin DOMAIN projects
    THEN Answer("updateProject", "NotFound")
    ELSE IF ~OwnerOrAdmin(FindProjectById(pid, FALSE), userId)
    THEN Answer("updateProject", "Forbidden")
    ELSE /\ now < MaxClockProjects
         /\ projects' = [projects EXCEPT ![pid] = ApplyPatch(@, updateData)]
         /\ activities' = ActivityLog("project.update", CastObjectId(userId),
                                      "project", pid, pid)
         /\ now' = now + 1
         /\ res' = Response("updateProject", "ok")
         /\ UNCHANGED <<tokens, localStorage, calls, users, tasks, ids>>

\* ProjectService.deleteProject(projectId, userId)
DeleteProject(pid, userId) ==
    IF pid \notin DOMAIN projects
    THEN Answer("deleteProject", "NotFound")
    ELSE IF ~ActorIsOwner(FindProjectById(pid, FALSE), userId)
    THEN Answer("deleteProject", "Forbidden")
    ELSE /\ now < MaxClockProjects
         /\ projects' = Remove(projects, pid)
         /\ activities' = ActivityLog("project.delete", CastObjectId(userId),
                                      "project", pid, Null)
         /\ now' = now + 1
         /\ res' = Response("deleteProject", "ok")
         /\ UNCHANGED <<tokens, localStorage, calls, users, tasks, ids>>

\* ProjectService.addMember(projectId, memberData, actorId)
AddMember(pid, memberData, actorId) ==
    LET Reject(err) == Answer("addMember", err)
    IN  IF pid \notin DOMAIN projects
        THEN Reject("NotFound")
        ELSE IF ~OwnerOrAdmin(FindProjectById(pid, FALSE), actorId)
        THEN Reject("Forbidden")
        ELSE IF CastObjectId(memberData.userId) \notin DOMAIN users
        THEN Reject("NotFound")
        ELSE IF IsMember(FindProjectById(pid, FALSE), memberData.userId)
        THEN Reject("Conflict")
        ELSE /\ now < MaxClockProjects
             /\ projects' = [projects EXCEPT
                                ![pid].members = RepoAddMember(@, memberData)]
             /\ activities' = ActivityLog("project.member_add", CastObjectId(actorId),
                                          "project", pid, pid)
             /\ now' = now + 1
             /\ res' = Response("addMember", "ok")
             /\ UNCHANGED <<tokens, localStorage, calls, users, tasks, ids>>

\* ProjectService.removeMember(projectId, memberId, actorId)
RemoveMember(pid, memberId, actorId) ==
    LET Reject(err) == Answer("removeMember", err)
    IN  IF pid \notin DOMAIN projects
        THEN Reject("NotFound")
        ELSE IF /\ ~IsSelfRemoval(actorId, memberId)
                /\ ~OwnerOrAdmin(FindProjectById(pid, FALSE), actorId)
        THEN Reject("Forbidden")
        ELSE IF TargetsOwner(FindProjectById(pid, FALSE), memberId)
        THEN Reject("BadRequest")
        ELSE IF ~IsMember(FindProjectById(pid, FALSE), memberId)
        THEN Reject("NotFound")
        ELSE /\ now < MaxClockProjects
             /\ projects' = [projects EXCEPT
                                ![pid].members = RepoRemoveMember(@, memberId)]
             /\ activities' = ActivityLog("project.member_remove", CastObjectId(actorId),
                                          "project", pid, pid)
             /\ now' = now + 1
             /\ res' = Response("removeMember", "ok")
             /\ UNCHANGED <<tokens, localStorage, calls, users, tasks, ids>>

\* ProjectService.updateMemberRole(projectId, memberId, newRole, actorId)
UpdateMemberRole(pid, memberId, newRole, actorId) ==
    LET Reject(err) == Answer("updateMemberRole", err)
    IN  IF pid \notin DOMAIN projects
        THEN Reject("NotFound")
        ELSE IF ~ActorIsOwner(FindProjectById(pid, FALSE), actorId)
        THEN Reject("Forbidden")
        ELSE IF TargetsOwner(FindProjectById(pid, FALSE), memberId)
        THEN Reject("BadRequest")
        ELSE IF \A i \in DOMAIN projects[pid].members :
                    IdToString(projects[pid].members[i].user) # memberId
        THEN Reject("NotFound")
        ELSE /\ now < MaxClockProjects
             /\ projects' = [projects EXCEPT
                                ![pid].members = RepoUpdateMemberRole(@, memberId, newRole)]
             /\ activities' = ActivityLog("project.member_role_change",
                                          CastObjectId(actorId), "project", pid, pid)
             /\ now' = now + 1
             /\ res' = Response("updateMemberRole", "ok")
             /\ UNCHANGED <<tokens, localStorage, calls, users, tasks, ids>>

\* The database after three registrations: one user of each system role.
Init ==
    /\ users = [u \in UserIds |->
                   [role |-> CASE u = "u1" -> "admin" [] u = "u2" -> "member"
                                  [] OTHER -> "viewer",
                    isActive |-> TRUE]]
    /\ projects = EmptyMap
    /\ tasks = EmptyMap
    /\ activities = << >>
    /\ ids = [project |-> 0, task |-> 0]
    /\ now = 0
    /\ res = NoResponse
    /\ calls = EmptyMap
    /\ tokens = {}
    /\ localStorage = NoStorage

\* Inputs of the project requests.
ProjectKeys == {"ABC", "XY"}
\* A project id in a route: a stored project's, or one that finds nothing.
ProjectTargets == DOMAIN projects \cup {GhostProject}
\* The user whose createProject requests Spec follows.
Creators == {IdToString("u1")}
\* The caller's id comes from the access token: user._id.toString().
ActorIds == {IdToString(u) : u \in UserIds}
\* A user id in a body or a route parameter: any spelling of any id.
UserIdInputs == HexStrings(UserIds) \cup {IdToString(GhostUser)}
ProjectPatches == {[visibility |-> "public"], [name |-> "Beta", status |-> "archived"]}

DoCreateProject ==
    \E key \in ProjectKeys, visibility \in Visibilities, ownerId \in Creators :
        CreateProject([name |-> "Alpha", key |-> key, visibility |-> visibility], ownerId)

DoGetProjectById ==
    \E pid \in ProjectTargets, userId \in ActorIds : GetProjectById(pid, userId)

DoUpdateProject ==
    \E pid \in ProjectTargets, patch \in ProjectPatches, userId \in ActorIds :
        UpdateProject(pid, patch, userId)

DoDeleteProject ==
    \E pid \in ProjectTargets, userId \in ActorIds : DeleteProject(pid, userId)

DoAddMember ==
    \E pid \in ProjectTargets, userId \in UserIdInputs, role \in MemberRoleInputs,
       actorId \in ActorIds :
        AddMember(pid, [userId |-> userId, role |-> role], actorId)

DoRemoveMember ==
    \E pid \in ProjectTargets, memberId \in UserIdInputs, actorId \in ActorIds :
        RemoveMember(pid, memberId, actorId)

DoUpdateMemberRole ==
    \E pid \in ProjectTargets, memberId \in UserIdInputs, newRole \in MemberRoleInputs,
       actorId \in ActorIds :
        UpdateMemberRole(pid, memberId, newRole, actorId)

Next ==
    \/ DoCreateProject
    \/ DoGetProjectById
    \/ DoUpdateProject
    \/ DoDeleteProject
    \/ DoAddMember
    \/ DoRemoveMember
    \/ DoUpdateMemberRole

Spec == Init /\ [][Next]_vars

\* The database once u1 has created the private project ABC and added u2
\* to it as project admin; u3 is in no project and the activity log has
\* been archived.
InitTeam ==
    /\ users = [u \in UserIds |->
                   [role |-> CASE u = "u1" -> "admin" [] u = "u2" -> "member"
                                  [] OTHER -> "viewer",
                    isActive |-> TRUE]]
    /\ projects = [p \in {ProjectId(1)} |->
                     [name |-> "Alpha", key |-> "ABC", owner |-> "u1",
                      members |-> <<[user |-> "u2", role |-> "admin", joinedAt |-> 0]>>,
                      visibility |-> "private", status |-> "active",
                      taskCount |-> 0, completedTaskCount |-> 0]]
    /\ tasks = EmptyMap
    /\ activities = << >>
    /\ ids = [project |-> 1, task |-> 0]
    /\ now = 0
    /\ res = NoResponse
    /\ calls = EmptyMap
    /\ tokens = {}
    /\ localStorage = NoStorage

\* The requests that change or remove a project that already has a team.
NextTeam ==
    \/ DoUpdateProject
    \/ DoDeleteProject
    \/ DoAddMember
    \/ DoRemoveMember

SpecTeam == InitTeam /\ [][NextTeam]_vars

\* ProjectService.updateProject(projectId, updateData, userId) in a run
\* where the insert of the activity record is rejected by the store: the
\* project has been written, `await Activity.log(...)` throws, and the
\* error handler turns the exception into an Internal (500) response.
UpdateProjectLogRejected(pid, updateData, userId) ==
    IF pid \notin DOMAIN projects
    THEN Answer("updateProject", "NotFound")
    ELSE IF ~OwnerOrAdmin(FindProjectById(pid, FALSE), userId)
    THEN Answer("updateProject", "Forbidden")
    ELSE /\ now < MaxClockProjects
         /\ projects' = [projects EXCEPT ![pid] = ApplyPatch(@, updateData)]
         /\ now' = now + 1
         /\ res' = Response("updateProject", "Internal")
         /\ UNCHANGED <<tokens, localStorage, calls, users, tasks, activities, ids>>

DoUpdateProjectLogRejected ==
    \E pid \in ProjectTargets, patch \in ProjectPatches, userId \in ActorIds :
        UpdateProjectLogRejected(pid, patch, userId)

\* The project requests while the activities collection may refuse writes.
NextAudit ==
    \/ DoUpdateProject
    \/ DoUpdateProjectLogRejected
    \/ DoAddMember
    \/ DoRemoveMember

SpecAudit == InitTeam /\ [][NextAudit]_vars

----------------------------------------------------------------------------
(* Concurrent createProject calls *)

\* Requests the server handles at the same time.
CallIds == {"r1", "r2", "r3"}

\* The frame of a createProject call between two awaits.
Frame(pc, projectData, ownerId, err, thrownBy) ==
    [op |-> "createProject", pc |-> pc, data |-> projectData, ownerId |-> ownerId,
     err |-> err, thrownBy |-> thrownBy]

DuplicateKeyNever(key) == FALSE

\* The unique index on key refuses the insert (E11000), which the error
\* handler converts to Conflict.
DuplicateKey(key) == \E p \in DOMAIN projects : projects[p].key = key

\* createProject up to its first await: findByKey and the test of its result.
CreateProjectFindByKey(r, projectData, ownerId) ==
    /\ r \notin DOMAIN calls
    /\ IF FindByKey(projectData.key)
       THEN /\ calls' = Put(calls, r, Frame("done", projectData, ownerId,
                                           "Conflict", "findByKey"))
            /\ res' = Response("createProject", "Conflict")
       ELSE /\ calls' = Put(calls, r, Frame("create", projectData, ownerId,
                                           "ok", "nothing"))
            /\ UNCHANGED res
    /\ UNCHANGED <<users, projects, tasks, activities, ids, now, tokens, localStorage>>

\* createProject resumed: projectRepository.create, the insert.
CreateProjectCreate(r) ==
    /\ r \in DOMAIN calls
    /\ calls[r].pc = "create"
    /\ IF DuplicateKey(calls[r].data.key)
       THEN /\ calls' = [calls EXCEPT ![r].pc = "done", ![r].err = "Conflict",
                                      ![r].thrownBy = "create"]
            /\ res' = Response("createProject", "Conflict")
            /\ UNCHANGED <<projects, ids, now>>
       ELSE /\ projects' = Put(projects, ProjectId(ids.project + 1),
                   [name |-> calls[r].data.name, key |-> calls[r].data.key,
                    owner |-> CastObjectId(calls[r].ownerId), members |-> << >>,
                    visibility |-> calls[r].data.visibility, status |-> "active",
                    taskCount |-> 0, completedTaskCount |-> 0])
            /\ ids' = [ids EXCEPT !.project = @ + 1]
            /\ now' = now + 1
            /\ calls' = [calls EXCEPT ![r].pc = "log"]
            /\ UNCHANGED res
    /\ UNCHANGED <<users, tasks, activities, tokens, localStorage>>

\* createProject resumed: Activity.log and the return.
CreateProjectLog(r) ==
    /\ r \in DOMAIN calls
    /\ calls[r].pc = "log"
    /\ LET created == CHOOSE p \in DOMAIN projects : projects[p].key = calls[r].data.key
       IN  activities' = ActivityLog("project.create", CastObjectId(calls[r].ownerId),
                                     "project", created, created)
    /\ calls' = [calls EXCEPT ![r].pc = "done"]
    /\ res' = Response("createProject", "ok")
    /\ UNCHANGED <<users, projects, tasks, ids, now, tokens, localStorage>>

DoCreateProjectFindByKey ==
    \E r \in CallIds, key \in ProjectKeys, visibility \in Visibilities,
       ownerId \in Creators :
        CreateProjectFindByKey(r, [name |-> "Alpha", key |-> key,
                                   visibility |-> visibility], ownerId)

DoCreateProjectCreate == \E r \in CallIds : CreateProjectCreate(r)

DoCreateProjectLog == \E r \in CallIds : CreateProjectLog(r)

NextCreate ==
    \/ DoCreateProjectFindByKey
    \/ DoCreateProjectCreate
    \/ DoCreateProjectLog

SpecCreate == Init /\ [][NextCreate]_vars

----------------------------------------------------------------------------
(* Concurrent addMember calls *)

\* Two addMember requests the server handles at the same time.
MemberCallIds == {"r1", "r2"}

\* The frame of an addMember call between two awaits: project is the
\* document findById returned, which the later tests read.
MemberFrame(pc, pid, project, memberData, actorId, err) ==
    [op |-> "addMember", pc |-> pc, pid |-> pid, project |-> project,
     memberData |-> memberData, actorId |-> actorId, err |-> err]

\* addMember up to User.findById: the project and the permission test.
AddMemberFindById(r, pid, memberData, actorId) ==
    LET err == IF pid \notin DOMAIN projects THEN "NotFound"
               ELSE IF ~OwnerOrAdmin(FindProjectById(pid, FALSE), actorId)
               THEN "Forbidden"
               ELSE "ok"
    IN  /\ r \notin DOMAIN calls
        /\ calls' = Put(calls, r,
               MemberFrame(IF err = "ok" THEN "findUser" ELSE "done", pid,
                           IF pid \in DOMAIN projects
                           THEN <<FindProjectById(pid, FALSE)>> ELSE << >>,
                           memberData, actorId, err))
        /\ res' = IF err = "ok" THEN res ELSE Response("addMember", err)
        /\ UNCHANGED <<users, projects, tasks, activities, ids, now, tokens, localStorage>>

\* User.findById, then isMember on the project document read before.
AddMemberFindUser(r) ==
    /\ r \in DOMAIN calls
    /\ calls[r].pc = "findUser"
    /\ LET err == IF CastObjectId(calls[r].memberData.userId) \notin DOMAIN users
                  THEN "NotFound"
                  ELSE IF IsMember(calls[r].project[1], calls[r].memberData.userId)
                  THEN "Conflict"
                  ELSE "ok"
       IN  /\ calls' = [calls EXCEPT ![r].pc = IF err = "ok" THEN "push" ELSE "done",
                                     ![r].err = err]
           /\ res' = IF err = "ok" THEN res ELSE Response("addMember", err)
    /\ UNCHANGED <<users, projects, tasks, activities, ids, now, tokens, localStorage>>

\* projectRepository.addMember: findByIdAndUpdate with $push.
AddMemberPush(r) ==
    /\ r \in DOMAIN calls
    /\ calls[r].pc = "push"
    /\ projects' = [projects EXCEPT
                       ![calls[r].pid].members = RepoAddMember(@, calls[r].memberData)]
    /\ now' = now + 1
    /\ calls' = [calls EXCEPT ![r].pc = "log"]
    /\ UNCHANGED <<users, tasks, activities, ids, res, tokens, localStorage>>

\* Activity.log and the return.
AddMemberLog(r) ==
    /\ r \in DOMAIN calls
    /\ calls[r].pc = "log"
    /\ activities' = ActivityLog("project.member_add", CastObjectId(calls[r].actorId),
                                 "project", calls[r].pid, calls[r].pid)
    /\ calls' = [calls EXCEPT ![r].pc = "done"]
    /\ res' = Response("addMember", "ok")
    /\ UNCHANGED <<users, projects, tasks, ids, now, tokens, localStorage>>

DoAddMemberFindById ==
    \E r \in MemberCallIds, pid \in {ProjectId(1), GhostProject},
       userId \in {IdToString("u2"), IdToString("u3"), IdToString(GhostUser)},
       role \in MemberRoleInputs, actorId \in ActorIds :
        AddMemberFindById(r, pid, [userId |-> userId, role |-> role], actorId)

DoAddMemberFindUser == \E r \in MemberCallIds : AddMemberFindUser(r)

DoAddMemberPush == \E r \in MemberCallIds : AddMemberPush(r)

DoAddMemberLog == \E r \in MemberCallIds : AddMemberLog(r)

NextAddRace ==
    \/ DoAddMemberFindById
    \/ DoAddMemberFindUser
    \/ DoAddMemberPush
    \/ DoAddMemberLog

SpecAddRace == InitTeam /\ [][NextAddRace]_vars

----------------------------------------------------------------------------
(* Authentication: refresh tokens *)

Passwords == {"pw1", "pw2"}

\* jwtUtils.generateRefreshToken({userId}): the signed text of the payload
\* {userId, type: 'refresh', iat, exp}.  Two tokens with the same payload
\* are the same text.
GenerateRefreshToken(userId) == [userId |-> userId, type |-> "refresh", iat |-> now]

\* The whole text of a refresh token, as a hash without an input limit
\* would read it.
WholeText(token) == [header |-> "HS256", userId |-> token.userId, iat |-> token.iat]

\* The first 72 bytes of a refresh token's text, all that bcrypt reads of
\* its input: the header, the dot and the start of the payload,
\* {"userId":" followed by the first 15 digits of the user id.  The rest of
\* the payload (iat, exp) and the signature lie beyond them.
First72Bytes(token) == [header |-> "HS256", userId |-> token.userId]

\* The refreshToken field of a user: null, or the hash it holds.
NoHash == {}

\* bcrypt.hash(text, rounds) of a refresh token.
BcryptHash(token) == {First72Bytes(token)}

\* bcrypt.compare(text, hash) of a refresh token.
BcryptCompare(token, hash) == hash = BcryptHash(token)

\* AuthService.login({email, password}); the account is named by its id.
Login(userId, password) ==
    IF userId \notin DOMAIN users \/ ~users[userId].isActive
    THEN /\ res' = Response("login", "Unauthorized")
         /\ UNCHANGED <<users, projects, tasks, activities, ids, now, calls, tokens, localStorage>>
    ELSE IF users[userId].password # password
    THEN /\ res' = Response("login", "Unauthorized")
         /\ UNCHANGED <<users, projects, tasks, activities, ids, now, calls, tokens, localStorage>>
    ELSE /\ now < MaxClockAuth
         /\ users' = [users EXCEPT ![userId].refreshToken =
                                       BcryptHash(GenerateRefreshToken(userId))]
         /\ tokens' = tokens \cup {GenerateRefreshToken(userId)}
         /\ UNCHANGED localStorage
         /\ activities' = ActivityLog("user.login", userId, "user", userId, Null)
         /\ now' = now + 1
         /\ res' = Response("login", "ok")
         /\ UNCHANGED <<projects, tasks, ids, calls>>

\* AuthService.logout(userId)
Logout(userId) ==
    /\ now < MaxClockAuth
    /\ users' = [users EXCEPT ![userId].refreshToken = NoHash]
    /\ activities' = ActivityLog("user.logout", userId, "user", userId, Null)
    /\ now' = now + 1
    /\ res' = Response("logout", "ok")
    /\ UNCHANGED <<projects, tasks, ids, calls, tokens, localStorage>>

\* AuthService.refreshTokens(refreshToken), for a token this server signed
\* and that has not expired.
RefreshTokens(refreshToken) ==
    LET userId == refreshToken.userId
        Reject == /\ res' = Response("refreshTokens", "Unauthorized")
                  /\ UNCHANGED <<users, projects, tasks, activities, ids, now,
                                 calls, tokens, localStorage>>
    IN  IF userId \notin DOMAIN users \/ ~users[userId].isActive
        THEN Reject
        ELSE IF users[userId].refreshToken = NoHash
        THEN Reject
        ELSE IF ~BcryptCompare(refreshToken, users[userId].refreshToken)
        THEN Reject
        ELSE /\ now < MaxClockAuth
             /\ users' = [users EXCEPT ![userId].refreshToken =
                                           BcryptHash(GenerateRefreshToken(userId))]
             /\ tokens' = tokens \cup {GenerateRefreshToken(userId)}
             /\ UNCHANGED localStorage
             /\ now' = now + 1
             /\ res' = Response("refreshTokens", "ok")
             /\ UNCHANGED <<projects, tasks, activities, ids, calls>>

ChangePasswordKeepsSessions(userId, currentPassword, newPassword) ==
    IF users[userId].password # currentPassword
    THEN /\ res' = Response("changePassword", "BadRequest")
         /\ UNCHANGED <<users, projects, tasks, activities, ids, now, calls, tokens, localStorage>>
    ELSE /\ now < MaxClockAuth
         /\ users' = [users EXCEPT ![userId].password = newPassword]
         /\ activities' = ActivityLog("user.password_change", userId, "user",
                                      userId, Null)
         /\ now' = now + 1
         /\ res' = Response("changePassword", "ok")
         /\ UNCHANGED <<projects, tasks, ids, calls, tokens, localStorage>>

\* AuthService.changePassword(userId, currentPassword, newPassword)
ChangePassword(userId, currentPassword, newPassword) ==
    IF users[userId].password # currentPassword
    THEN /\ res' = Response("changePassword", "BadRequest")
         /\ UNCHANGED <<users, projects, tasks, activities, ids, now, calls, tokens, localStorage>>
    ELSE /\ now < MaxClockAuth
         /\ users' = [users EXCEPT ![userId].password = newPassword,
                                   ![userId].refreshToken = NoHash]
         /\ activities' = ActivityLog("user.password_change", userId, "user",
                                      userId, Null)
         /\ now' = now + 1
         /\ res' = Response("changePassword", "ok")
         /\ UNCHANGED <<projects, tasks, ids, calls, tokens, localStorage>>

\* Three registered users who have logged out; the refresh tokens issued
\* to them earlier have expired and the activity log has been archived.
InitAuth ==
    /\ users = [u \in UserIds |->
                   [role |-> CASE u = "u1" -> "admin" [] u = "u2" -> "member"
                                  [] OTHER -> "viewer",
                    isActive |-> TRUE, password |-> "pw1", refreshToken |-> NoHash]]
    /\ projects = EmptyMap
    /\ tasks = EmptyMap
    /\ activities = << >>
    /\ ids = [project |-> 0, task |-> 0]
    /\ now = 0
    /\ res = NoResponse
    /\ calls = EmptyMap
    /\ tokens = {}
    /\ localStorage = NoStorage

\* The accounts whose sessions SpecAuth follows.
AuthUsers == {"u1", "u2"}

DoLogin == \E userId \in AuthUsers, password \in Passwords : Login(userId, password)

DoLogout == \E userId \in AuthUsers : Logout(userId)

DoRefreshTokens == \E refreshToken \in tokens : RefreshTokens(refreshToken)

DoChangePassword ==
    \E userId \in AuthUsers, currentPassword \in Passwords, newPassword \in Passwords :
        ChangePassword(userId, currentPassword, newPassword)

NextAuth ==
    \/ DoLogin
    \/ DoLogout
    \/ DoRefreshTokens
    \/ DoChangePassword

SpecAuth == InitAuth /\ [][NextAuth]_vars

----------------------------------------------------------------------------
(* Search *)

\* The characters of the texts the model uses.
Chars(text) ==
    CASE text = "Alpha" -> <<"A", "l", "p", "h", "a">>
      [] text = "Beta" -> <<"B", "e", "t", "a">>
      [] text = "ABC" -> <<"A", "B", "C">>
      [] text = "XY" -> <<"X", "Y">>
      [] text = "ABX" -> <<"A", "B", "X">>
      [] text = "ab" -> <<"a", "b">>
      [] text = "Al" -> <<"A", "l">>
      [] text = "xy" -> <<"x", "y">>
      [] text = "b." -> <<"b", ".">>
      [] OTHER -> << >>

LowerCase(c) ==
    CASE c = "A" -> "a" [] c = "B" -> "b" [] c = "C" -> "c"
      [] c = "X" -> "x" [] c = "Y" -> "y" [] OTHER -> c

\* new RegExp(query, 'i').test(text): the query occurs somewhere in the
\* text, letter case ignored, a dot of the query standing for any character.
RegexTest(query, text) ==
    LET q == Chars(query)
        t == Chars(text)
    IN  \E i \in 1..(Len(t) - Len(q) + 1) :
            \A j \in 1..Len(q) :
                q[j] = "." \/ LowerCase(q[j]) = LowerCase(t[i + j - 1])

VisibleToAnyone(project, userId) == TRUE

\* The $and clause of _searchProjects: public, or owned by the caller, or
\* the caller is among the members.
VisibleTo(project, userId) ==
    \/ project.visibility = "public"
    \/ project.owner = CastObjectId(userId)
    \/ \E i \in DOMAIN project.members : project.members[i].user = CastObjectId(userId)

\* The projects of set S by updatedAt, latest first.
SortByUpdatedAtDesc(S) ==
    CHOOSE seq \in [1..Cardinality(S) -> S] :
        /\ \A i, j \in DOMAIN seq : i # j => seq[i] # seq[j]
        /\ \A i, j \in DOMAIN seq :
              i < j => projects[seq[i]].updatedAt > projects[seq[j]].updatedAt

\* SearchService._searchProjects(searchRegex, limit, userId)
SearchProjects(query, limit, userId) ==
    LET hits == {p \in DOMAIN projects :
                    /\ \/ RegexTest(query, projects[p].name)
                       \/ RegexTest(query, projects[p].description)
                       \/ RegexTest(query, projects[p].key)
                    /\ VisibleTo(projects[p], userId)}
        sorted == SortByUpdatedAtDesc(hits)
    IN  SubSeq(sorted, 1, IF Len(sorted) < limit THEN Len(sorted) ELSE limit)

\* SearchService.globalSearch(query, {scope, limit}, userId); of the four
\* result lists the answer keeps the list of projects.
GlobalSearch(query, scope, limit, userId) ==
    /\ res' = IF scope \in {"all", "projects"}
              THEN [op |-> "globalSearch", err |-> "ok", query |-> query,
                    userId |-> userId,
                    projects |-> SearchProjects(query, limit, userId)]
              ELSE [op |-> "globalSearch", err |-> "ok", query |-> query,
                    userId |-> userId]
    /\ UNCHANGED <<users, projects, tasks, activities, ids, now, calls, tokens, localStorage>>

\* Three projects created by u1 or u2, each private or public, each with
\* or without u3 as member, last written in the order ABC, XY, ABX.
InitSearch ==
    /\ users = [u \in UserIds |->
                   [role |-> CASE u = "u1" -> "admin" [] u = "u2" -> "member"
                                  [] OTHER -> "viewer",
                    isActive |-> TRUE]]
    /\ \E owner \in [1..3 -> {"u1", "u2"}], visibility \in [1..3 -> Visibilities],
          joined \in [1..3 -> BOOLEAN] :
          projects = [p \in {ProjectId(1), ProjectId(2), ProjectId(3)} |->
                        [name |-> IF p[2] = 2 THEN "Beta" ELSE "Alpha",
                         description |-> "",
                         key |-> CASE p[2] = 1 -> "ABC" [] p[2] = 2 -> "XY"
                                   [] OTHER -> "ABX",
                         owner |-> owner[p[2]],
                         members |-> IF joined[p[2]]
                                     THEN <<[user |-> "u3", role |-> "member",
                                             joinedAt |-> 0]>>
                                     ELSE << >>,
                         visibility |-> visibility[p[2]], status |-> "active",
                         taskCount |-> 0, completedTaskCount |-> 0,
                         updatedAt |-> p[2]]]
    /\ tasks = EmptyMap
    /\ activities = << >>
    /\ ids = [project |-> 3, task |-> 0]
    /\ now = 0
    /\ res = NoResponse
    /\ calls = EmptyMap
    /\ tokens = {}
    /\ localStorage = NoStorage

SearchQueries == {"ab", "Al", "xy", "b."}
SearchScopes == {"all", "tasks", "projects", "users", "comments"}
SearchLimits == {1, 2, 3}

DoGlobalSearch ==
    \E query \in SearchQueries, scope \in SearchScopes, limit \in SearchLimits,
       userId \in ActorIds :
        GlobalSearch(query, scope, limit, userId)

SpecSearch == InitSearch /\ [][DoGlobalSearch]_vars

----------------------------------------------------------------------------
(* Tasks *)

\* `${project.key}-${n}`: the key and the sequence number, kept apart (a
\* key holds no hyphen, so the text determines both).
TaskNumber(key, n) == <<key, n>>

\* Task.countDocuments({project})
CountTasks(pid) == Cardinality({t \in DOMAIN tasks : tasks[t].project = pid})

SequenceNumberFromCount(count) == count

\* `count + 1` of the pre-save hook.
SequenceNumber(count) == count + 1

\* Activity.log of the task service: every entry carries the task's number
\* in its metadata.
ActivityLogTask(action, actor, entityId, project, taskNumber) ==
    Append(activities,
           [action |-> action, actor |-> actor, entityType |-> "task",
            entityId |-> entityId, project |-> project, createdAt |-> now,
            taskNumber |-> taskNumber])

\* A Date field: null, or the instant it holds.
NoDate == << >>
DateAt(t) == <<t>>

\* The completion tracking of the pre-save hook, for a document whose
\* status is modified.
TrackCompletion(status, completedAt) ==
    IF status = "done" /\ completedAt = NoDate THEN DateAt(now)
    ELSE IF status # "done" THEN NoDate
    ELSE completedAt

\* roleHierarchy.indexOf(role)
RoleIndex(role) == CASE role = "viewer" -> 0 [] role = "member" -> 1 [] role = "admin" -> 2

\* authorizeMinRole(minimumRole) lets the request through.
AuthorizeMinRole(role, minimumRole) == ~(RoleIndex(role) < RoleIndex(minimumRole))

\* TaskService.createTask(taskData, reporterId).  Task.create runs the
\* pre-save hook (number from the count, $inc of the project's taskCount,
\* completion tracking) and then inserts; the unique index on taskNumber
\* refuses a number another task holds, after the $inc has been applied.
\* The post-save hook finds no modified path on the saved document and
\* writes nothing.
CreateTask(taskData, reporterId) ==
    LET pid == CastObjectId(taskData.projectId)
    IN  IF pid \notin DOMAIN projects
        THEN Answer("createTask", "NotFound")
        ELSE IF /\ ~IsMember(FindProjectById(pid, FALSE), reporterId)
                /\ projects[pid].visibility # "public"
        THEN Answer("createTask", "Forbidden")
        ELSE LET tid == TaskId(ids.task + 1)
                 number == TaskNumber(projects[pid].key,
                                      SequenceNumber(CountTasks(pid)))
             IN  /\ now < MaxClockTasks
                 /\ projects' = [projects EXCEPT ![pid].taskCount = @ + 1]
                 /\ ids' = [ids EXCEPT !.task = @ + 1]
                 /\ now' = now + 1
                 /\ IF \E t \in DOMAIN tasks : tasks[t].taskNumber = number
                    THEN /\ res' = Response("createTask", "Conflict")
                         /\ UNCHANGED <<tasks, activities>>
                    ELSE /\ tasks' = Put(tasks, tid,
                                [project |-> pid, taskNumber |-> number,
                                 status |-> taskData.status,
                                 priority |-> taskData.priority,
                                 assignee |-> Null,
                                 reporter |-> CastObjectId(reporterId),
                                 completedAt |-> TrackCompletion(taskData.status, NoDate)])
                         /\ activities' = ActivityLogTask("task.create",
                                CastObjectId(reporterId), tid, pid, number)
                         /\ res' = Response("createTask", "ok")
                 /\ UNCHANGED <<tokens, localStorage, calls, users>>

TaskActionTypeFirstWins(task, updateData) ==
    IF "status" \in DOMAIN updateData /\ updateData.status # task.status
    THEN "task.status_change"
    ELSE IF /\ "assigneeId" \in DOMAIN updateData
            /\ updateData.assigneeId # Null /\ task.assignee = Null
    THEN "task.assign"
    ELSE IF /\ "assigneeId" \in DOMAIN updateData
            /\ updateData.assigneeId = Null /\ task.assignee # Null
    THEN "task.unassign"
    ELSE IF "priority" \in DOMAIN updateData /\ updateData.priority # task.priority
    THEN "task.priority_change"
    ELSE "task.update"

\* The action tag updateTask chooses: each later test overrides the tag of
\* the earlier ones.
TaskActionType(task, updateData) ==
    LET byStatus ==
            IF "status" \in DOMAIN updateData /\ updateData.status # task.status
            THEN "task.status_change" ELSE "task.update"
        byAssignee ==
            IF "assigneeId" \notin DOMAIN updateData THEN byStatus
            ELSE IF updateData.assigneeId # Null /\ task.assignee = Null
            THEN "task.assign"
            ELSE IF updateData.assigneeId = Null /\ task.assignee # Null
            THEN "task.unassign"
            ELSE byStatus
    IN  IF "priority" \in DOMAIN updateData /\ updateData.priority # task.priority
        THEN "task.priority_change" ELSE byAssignee

\* updateData as it reaches the repository: assigneeId has become assignee.
RenameAssignee(updateData) ==
    LET fields == (DOMAIN updateData \ {"assigneeId"}) \cup
                  (IF "assigneeId" \in DOMAIN updateData THEN {"assignee"} ELSE {})
    IN  [f \in fields |->
            IF f # "assignee" THEN updateData[f]
            ELSE IF updateData.assigneeId = Null THEN Null
            ELSE CastObjectId(updateData.assigneeId)]

\* TaskService.updateTask(taskId, updateData, userId): findByIdAndUpdate
\* sets the given fields; no save hook runs.
UpdateTask(taskId, updateData, userId) ==
    IF taskId \notin DOMAIN tasks
    THEN Answer("updateTask", "NotFound")
    ELSE /\ now < MaxClockTasks
         /\ tasks' = [tasks EXCEPT ![taskId] = ApplyPatch(@, RenameAssignee(updateData))]
         /\ activities' = ActivityLogTask(TaskActionType(tasks[taskId], updateData),
                              CastObjectId(userId), taskId, tasks[taskId].project,
                              tasks[taskId].taskNumber)
         /\ now' = now + 1
         /\ res' = Response("updateTask", "ok")
         /\ UNCHANGED <<tokens, localStorage, calls, users, projects, ids>>

\* TaskService.deleteTask(taskId, userId)
DeleteTask(taskId, userId) ==
    IF taskId \notin DOMAIN tasks
    THEN Answer("deleteTask", "NotFound")
    ELSE /\ now < MaxClockTasks
         /\ tasks' = Remove(tasks, taskId)
         /\ projects' = [projects EXCEPT ![tasks[taskId].project].taskCount = @ - 1]
         /\ activities' = ActivityLogTask("task.delete", CastObjectId(userId), taskId,
                              tasks[taskId].project, tasks[taskId].taskNumber)
         /\ now' = now + 1
         /\ res' = Response("deleteTask", "ok")
         /\ UNCHANGED <<tokens, localStorage, calls, users, ids>>

\* TaskService.bulkUpdateTasks(taskIds, updates, userId): updateMany sets
\* the given fields on the listed tasks that exist; no save hook runs and
\* nothing is logged.
BulkUpdateTasks(taskIds, updates, userId) ==
    IF taskIds \cap DOMAIN tasks = {}
    THEN Answer("bulkUpdateTasks", "ok")
    ELSE /\ now < MaxClockTasks
         /\ tasks' = [t \in DOMAIN tasks |->
                         IF t \in taskIds THEN ApplyPatch(tasks[t], updates)
                         ELSE tasks[t]]
         /\ now' = now + 1
         /\ res' = Response("bulkUpdateTasks", "ok")
         /\ UNCHANGED <<tokens, localStorage, calls, users, projects, activities, ids>>

\* The database once u1 has created the private project ABC and added u3
\* to it, and has created the public project XY; no task exists yet and
\* the activity log has been archived.
InitTasks ==
    /\ users = [u \in UserIds |->
                   [role |-> CASE u = "u1" -> "admin" [] u = "u2" -> "member"
                                  [] OTHER -> "viewer",
                    isActive |-> TRUE]]
    /\ projects = [p \in {ProjectId(1), ProjectId(2)} |->
                     [name |-> "Alpha",
                      key |-> IF p = ProjectId(1) THEN "ABC" ELSE "XY",
                      owner |-> "u1",
                      members |-> IF p = ProjectId(1)
                                  THEN <<[user |-> "u3", role |-> "member", joinedAt |-> 0]>>
                                  ELSE << >>,
                      visibility |-> IF p = ProjectId(1) THEN "private" ELSE "public",
                      status |-> "active", taskCount |-> 0, completedTaskCount |-> 0]]
    /\ tasks = EmptyMap
    /\ activities = << >>
    /\ ids = [project |-> 2, task |-> 0]
    /\ now = 0
    /\ res = NoResponse
    /\ calls = EmptyMap
    /\ tokens = {}
    /\ localStorage = NoStorage

\* Inputs of the task requests.
GhostTask == TaskId(0)
TaskTargets == DOMAIN tasks \cup {GhostTask}
\* Callers the routes POST /tasks and PATCH /tasks/bulk let through.
MemberActorIds ==
    {IdToString(u) : u \in {x \in UserIds : AuthorizeMinRole(users[x].role, "member")}}
CreateStatuses == {"todo", "done"}
TaskPatches ==
    {[status |-> "done"], [status |-> "in_progress"], [priority |-> "high"],
     [assigneeId |-> IdToString("u2")]}
\* The body {assigneeId: null}.
Unassign == [assigneeId |-> Null]
BulkUpdates == {[status |-> "done"], [status |-> "todo"]}

DoCreateTask ==
    \E pid \in ProjectTargets, status \in CreateStatuses, reporterId \in MemberActorIds :
        CreateTask([projectId |-> IdToString(pid), status |-> status,
                    priority |-> "medium"], reporterId)

DoUpdateTask ==
    \E taskId \in TaskTargets, userId \in ActorIds :
        \/ \E updateData \in TaskPatches : UpdateTask(taskId, updateData, userId)
        \/ UpdateTask(taskId, Unassign, userId)

DoDeleteTask ==
    \E taskId \in TaskTargets, userId \in ActorIds : DeleteTask(taskId, userId)

DoBulkUpdateTasks ==
    \E taskIds \in SUBSET TaskTargets \ {{}}, updates \in BulkUpdates,
       userId \in MemberActorIds :
        BulkUpdateTasks(taskIds, updates, userId)

NextTasks ==
    \/ DoCreateTask
    \/ DoUpdateTask
    \/ DoDeleteTask
    \/ DoBulkUpdateTasks

SpecTasks == InitTasks /\ [][NextTasks]_vars

----------------------------------------------------------------------------
(* Access tokens and the request gates *)

\* config.jwt.accessExpiresIn, in ticks of the model's clock.
AccessExpiresIn == 3

\* jwtUtils.generateAccessToken({userId, role}): the signed payload.
GenerateAccessToken(userId, role) ==
    [userId |-> userId, role |-> role, type |-> "access", iat |-> now,
     exp |-> now + AccessExpiresIn]

\* AuthService.login with both tokens of generateTokens: the access token
\* carries the role the user has at login.
LoginTokens(userId, password) ==
    IF userId \notin DOMAIN users \/ ~users[userId].isActive
    THEN /\ res' = Response("login", "Unauthorized")
         /\ UNCHANGED <<users, projects, tasks, activities, ids, now, calls, tokens, localStorage>>
    ELSE IF users[userId].password # password
    THEN /\ res' = Response("login", "Unauthorized")
         /\ UNCHANGED <<users, projects, tasks, activities, ids, now, calls, tokens, localStorage>>
    ELSE /\ now < MaxClockAuth
         /\ users' = [users EXCEPT ![userId].refreshToken =
                                       BcryptHash(GenerateRefreshToken(userId))]
         /\ tokens' = tokens \cup {GenerateAccessToken(userId, users[userId].role),
                                   GenerateRefreshToken(userId)}
         /\ UNCHANGED localStorage
         /\ activities' = ActivityLog("user.login", userId, "user", userId, Null)
         /\ now' = now + 1
         /\ res' = Response("login", "ok")
         /\ UNCHANGED <<projects, tasks, ids, calls>>

\* jwtUtils.verifyAccessToken: the signature is good (the server signed the
\* token with the access secret) and the token has not expired.
VerifyAccessToken(token) == token.type = "access" /\ now < token.exp

StoredRole(token) == users[token.userId].role

\* req.user.role as authenticate sets it: the role of the decoded payload.
RequestRole(token) == token.role

\* authorize(...allowedRoles) lets the request through.
Authorize(role, allowedRoles) == role \in allowedRoles

\* The role gates of the routes: authorize(Roles.ADMIN) and
\* authorizeMinRole(Roles.MEMBER).
Gates == {[kind |-> "authorize", roles |-> {"admin"}, minimumRole |-> "admin"],
          [kind |-> "authorizeMinRole", roles |-> {}, minimumRole |-> "member"]}

GatePasses(role, gate) ==
    IF gate.kind = "authorize" THEN Authorize(role, gate.roles)
    ELSE AuthorizeMinRole(role, gate.minimumRole)

\* The answer of authenticate followed by the gate for a role.
GateAnswer(token, role, gate) ==
    IF ~VerifyAccessToken(token) THEN "Unauthorized"
    ELSE IF ~GatePasses(role, gate) THEN "Forbidden"
    ELSE "ok"

\* A request carrying `Bearer token` to a route behind authenticate and
\* the gate; the answer records what was presented.
Request(token, gate) ==
    /\ res' = [op |-> "request", err |-> GateAnswer(token, RequestRole(token), gate),
               token |-> token, gate |-> gate]
    /\ UNCHANGED <<users, projects, tasks, activities, ids, now, calls, tokens, localStorage>>

DoLoginTokens ==
    \E userId \in AuthUsers, password \in Passwords : LoginTokens(userId, password)

DoRequest == \E token \in tokens, gate \in Gates : Request(token, gate)

NextGate ==
    \/ DoLoginTokens
    \/ DoUpdateRole
    \/ DoDeactivateUser
    \/ DoRequest

SpecGate == InitAuth /\ [][NextGate]_vars

----------------------------------------------------------------------------
(* The web client's response interceptor *)

\* Two requests of the web client that are in flight at the same time.
ClientRequests == {"q1", "q2"}

\* The interceptor's frame for one request: refreshToken is the token read
\* from localStorage, foundAt the time the server read the user, received
\* the tokens of the refresh response, status the answer to the retry.
ClientFrame(pc, refreshToken, foundAt, received, status) ==
    [op |-> "interceptor", pc |-> pc, refreshToken |-> refreshToken,
     foundAt |-> foundAt, received |-> received, status |-> status]

\* The catch block: both tokens removed, the page sent to /login.
ClearTokens == NoStorage

\* The 401 of the original request arrives: the interceptor marks the
\* request as retried, reads the refresh token and posts /auth/refresh.
InterceptUnauthorized(q) ==
    /\ q \notin DOMAIN calls
    /\ IF localStorage.refreshToken = << >>
       THEN /\ calls' = Put(calls, q, ClientFrame("loggedOut", << >>, now, << >>, 401))
            /\ localStorage' = ClearTokens
       ELSE /\ calls' = Put(calls, q, ClientFrame("find", localStorage.refreshToken,
                                                  now, << >>, 401))
            /\ UNCHANGED localStorage
    /\ UNCHANGED <<users, projects, tasks, activities, ids, now, res, tokens>>

\* AuthService.refreshTokens up to bcrypt.compare: the token verifies, the
\* user is read, and the token is compared with the hash just read.
RefreshFindAndCompare(q) ==
    /\ q \in DOMAIN calls
    /\ calls[q].pc = "find"
    /\ LET token == calls[q].refreshToken[1]
           userId == token.userId
           accepted == /\ userId \in DOMAIN users
                       /\ users[userId].isActive
                       /\ users[userId].refreshToken # NoHash
                       /\ BcryptCompare(token, users[userId].refreshToken)
       IN  calls' = [calls EXCEPT ![q].pc = IF accepted THEN "save" ELSE "refused",
                                  ![q].foundAt = now]
    /\ UNCHANGED <<users, projects, tasks, activities, ids, now, res, tokens,
                   localStorage>>

\* AuthService.refreshTokens resumed: generateTokens, the hash of the new
\* refresh token, user.save() and the 200 response.
RefreshGenerateAndSave(q) ==
    /\ q \in DOMAIN calls
    /\ calls[q].pc = "save"
    /\ now < MaxClockAuth
    /\ LET userId == calls[q].refreshToken[1].userId
           issued == [accessToken |-> <<GenerateAccessToken(userId, users[userId].role)>>,
                      refreshToken |-> <<GenerateRefreshToken(userId)>>]
       IN  /\ users' = [users EXCEPT ![userId].refreshToken =
                                         BcryptHash(GenerateRefreshToken(userId))]
           /\ tokens' = tokens \cup {issued.accessToken[1], issued.refreshToken[1]}
           /\ calls' = [calls EXCEPT ![q].pc = "store", ![q].received = <<issued>>]
    /\ now' = now + 1
    /\ res' = Response("refreshTokens", "ok")
    /\ UNCHANGED <<projects, tasks, activities, ids, localStorage>>

\* The refresh response arrives: on 200 the interceptor stores both tokens
\* and sends the original request again with the new access token; on 401
\* its catch block clears the stored tokens.
InterceptRefreshResponse(q) ==
    /\ q \in DOMAIN calls
    /\ calls[q].pc \in {"store", "refused"}
    /\ IF calls[q].pc = "store"
       THEN /\ localStorage' = calls[q].received[1]
            /\ calls' = [calls EXCEPT ![q].pc = "retry"]
       ELSE /\ localStorage' = ClearTokens
            /\ calls' = [calls EXCEPT ![q].pc = "loggedOut"]
    /\ res' = Response("refreshTokens", IF calls[q].pc = "store" THEN "ok"
                                        ELSE "Unauthorized")
    /\ UNCHANGED <<users, projects, tasks, activities, ids, now, tokens>>

\* The server answers the retried request: authenticate on its token.
AnswerRetry(q) ==
    /\ q \in DOMAIN calls
    /\ calls[q].pc = "retry"
    /\ LET ok == VerifyAccessToken(calls[q].received[1].accessToken[1])
       IN  /\ calls' = [calls EXCEPT ![q].pc = IF ok THEN "done" ELSE "rejected",
                                     ![q].status = IF ok THEN 200 ELSE 401]
           /\ res' = Response("request", IF ok THEN "ok" ELSE "Unauthorized")
    /\ UNCHANGED <<users, projects, tasks, activities, ids, now, tokens, localStorage>>

\* A user logged in AccessExpiresIn ticks ago: the access token in
\* localStorage has just expired, the refresh token has not, and both
\* requests were sent with the expired access token.
InitClient ==
    /\ \E userId \in AuthUsers :
          LET role == IF userId = "u1" THEN "admin" ELSE "member"
              accessToken == [userId |-> userId, role |-> role, type |-> "access",
                              iat |-> 0 - AccessExpiresIn, exp |-> 0]
              refreshToken == [userId |-> userId, type |-> "refresh",
                               iat |-> 0 - AccessExpiresIn]
          IN  /\ users = [u \in UserIds |->
                            [role |-> CASE u = "u1" -> "admin" [] u = "u2" -> "member"
                                           [] OTHER -> "viewer",
                             isActive |-> TRUE, password |-> "pw1",
                             refreshToken |-> IF u = userId THEN BcryptHash(refreshToken)
                                              ELSE NoHash]]
              /\ tokens = {accessToken, refreshToken}
              /\ localStorage = [accessToken |-> <<accessToken>>,
                                 refreshToken |-> <<refreshToken>>]
    /\ projects = EmptyMap
    /\ tasks = EmptyMap
    /\ activities = << >>
    /\ ids = [project |-> 0, task |-> 0]
    /\ now = 0
    /\ res = NoResponse
    /\ calls = EmptyMap

DoInterceptUnauthorized == \E q \in ClientRequests : InterceptUnauthorized(q)

DoRefreshFindAndCompare == \E q \in ClientRequests : RefreshFindAndCompare(q)

DoRefreshGenerateAndSave == \E q \in ClientRequests : RefreshGenerateAndSave(q)

DoInterceptRefreshResponse == \E q \in ClientRequests : InterceptRefreshResponse(q)

DoAnswerRetry == \E q \in ClientRequests : AnswerRetry(q)

NextClient ==
    \/ DoInterceptUnauthorized
    \/ DoRefreshFindAndCompare
    \/ DoRefreshGenerateAndSave
    \/ DoInterceptRefreshResponse
    \/ DoAnswerRetry

\* The browser's event loop and the server run every continuation that is
\* ready.
SpecClient == InitClient /\ [][NextClient]_vars /\ WF_vars(NextClient)

----------------------------------------------------------------------------
(* Concurrent createTask calls *)

\* The taskNumber of a document whose pre-save hook has not run yet.
NoTaskNumber == TaskNumber("none", 0)

\* The frame of a createTask call between two awaits.
TaskFrame(pc, taskData, reporterId, number, err) ==
    [op |-> "createTask", pc |-> pc, data |-> taskData, reporterId |-> reporterId,
     number |-> number, err |-> err]

DuplicateTaskNumberNever(number) == FALSE

\* The unique index on taskNumber refuses the insert (E11000), which the
\* error handler converts to Conflict.
DuplicateTaskNumber(number) == \E t \in DOMAIN tasks : tasks[t].taskNumber = number

\* createTask up to taskRepository.create: the project and the access test.
CreateTaskFindProject(r, taskData, reporterId) ==
    LET pid == CastObjectId(taskData.projectId)
        err == IF pid \notin DOMAIN projects THEN "NotFound"
               ELSE IF /\ ~IsMember(FindProjectById(pid, FALSE), reporterId)
                       /\ projects[pid].visibility # "public"
               THEN "Forbidden"
               ELSE "ok"
    IN  /\ r \notin DOMAIN calls
        /\ calls' = Put(calls, r, TaskFrame(IF err = "ok" THEN "count" ELSE "done",
                                            taskData, reporterId, NoTaskNumber, err))
        /\ res' = IF err = "ok" THEN res ELSE Response("createTask", err)
        /\ UNCHANGED <<users, projects, tasks, activities, ids, now, tokens, localStorage>>

\* pre('save'): Project.findById, countDocuments and the taskNumber.
CreateTaskCount(r) ==
    /\ r \in DOMAIN calls
    /\ calls[r].pc = "count"
    /\ LET pid == CastObjectId(calls[r].data.projectId)
       IN  calls' = [calls EXCEPT ![r].pc = "inc",
                        ![r].number = TaskNumber(projects[pid].key,
                                                 SequenceNumber(CountTasks(pid)))]
    /\ UNCHANGED <<users, projects, tasks, activities, ids, now, res, tokens, localStorage>>

\* pre('save'): Project.findByIdAndUpdate with $inc of taskCount.
CreateTaskInc(r) ==
    /\ r \in DOMAIN calls
    /\ calls[r].pc = "inc"
    /\ projects' = [projects EXCEPT
                       ![CastObjectId(calls[r].data.projectId)].taskCount = @ + 1]
    /\ calls' = [calls EXCEPT ![r].pc = "insert"]
    /\ UNCHANGED <<users, tasks, activities, ids, now, res, tokens, localStorage>>

\* The insert of the document; post('save') finds no modified path.
CreateTaskInsert(r) ==
    /\ r \in DOMAIN calls
    /\ calls[r].pc = "insert"
    /\ IF DuplicateTaskNumber(calls[r].number)
       THEN /\ calls' = [calls EXCEPT ![r].pc = "done", ![r].err = "Conflict"]
            /\ res' = Response("createTask", "Conflict")
            /\ UNCHANGED <<tasks, ids, now>>
       ELSE /\ tasks' = Put(tasks, TaskId(ids.task + 1),
                   [project |-> CastObjectId(calls[r].data.projectId),
                    taskNumber |-> calls[r].number,
                    status |-> calls[r].data.status,
                    priority |-> calls[r].data.priority,
                    assignee |-> Null,
                    reporter |-> CastObjectId(calls[r].reporterId),
                    completedAt |-> TrackCompletion(calls[r].data.status, NoDate)])
            /\ ids' = [ids EXCEPT !.task = @ + 1]
            /\ now' = now + 1
            /\ calls' = [calls EXCEPT ![r].pc = "log"]
            /\ UNCHANGED res
    /\ UNCHANGED <<users, projects, activities, tokens, localStorage>>

\* createTask resumed: Activity.log and the return.
CreateTaskLog(r) ==
    /\ r \in DOMAIN calls
    /\ calls[r].pc = "log"
    /\ LET created == CHOOSE t \in DOMAIN tasks : tasks[t].taskNumber = calls[r].number
       IN  activities' = ActivityLogTask("task.create",
                              CastObjectId(calls[r].reporterId), created,
                              CastObjectId(calls[r].data.projectId), calls[r].number)
    /\ calls' = [calls EXCEPT ![r].pc = "done"]
    /\ res' = Response("createTask", "ok")
    /\ UNCHANGED <<users, projects, tasks, ids, now, tokens, localStorage>>

DoCreateTaskFindProject ==
    \E r \in CallIds, pid \in ProjectTargets, reporterId \in MemberActorIds :
        CreateTaskFindProject(r, [projectId |-> IdToString(pid), status |-> "todo",
                                  priority |-> "medium"], reporterId)

DoCreateTaskCount == \E r \in CallIds : CreateTaskCount(r)

DoCreateTaskInc == \E r \in CallIds : CreateTaskInc(r)

DoCreateTaskInsert == \E r \in CallIds : CreateTaskInsert(r)

DoCreateTaskLog == \E r \in CallIds : CreateTaskLog(r)

NextCreateTask ==
    \/ DoCreateTaskFindProject
    \/ DoCreateTaskCount
    \/ DoCreateTaskInc
    \/ DoCreateTaskInsert
    \/ DoCreateTaskLog

SpecCreateTask == InitTasks /\ [][NextCreateTask]_vars

----------------------------------------------------------------------------
(* Concurrent updateTask calls *)

\* The frame of an updateTask call between two awaits: task is the
\* document findById returned.
UpdateFrame(pc, taskId, task, updateData, userId, err) ==
    [op |-> "updateTask", pc |-> pc, taskId |-> taskId, task |-> task,
     updateData |-> updateData, userId |-> userId, err |-> err]

\* updateTask up to taskRepository.updateById: findById and the choice of
\* the action type from the document read.
UpdateTaskFindById(r, taskId, updateData, userId) ==
    /\ r \notin DOMAIN calls
    /\ IF taskId \notin DOMAIN tasks
       THEN /\ calls' = Put(calls, r, UpdateFrame("done", taskId, NoDate, updateData,
                                                  userId, "NotFound"))
            /\ res' = Response("updateTask", "NotFound")
       ELSE /\ calls' = Put(calls, r, UpdateFrame("update", taskId, <<tasks[taskId]>>,
                                                  updateData, userId, "ok"))
            /\ UNCHANGED res
    /\ UNCHANGED <<users, projects, tasks, activities, ids, now, tokens, localStorage>>

\* taskRepository.updateById: findByIdAndUpdate sets the given fields; no
\* save hook runs, so the project's completedTaskCount is not recounted.
UpdateTaskUpdateById(r) ==
    /\ r \in DOMAIN calls
    /\ calls[r].pc = "update"
    /\ tasks' = [tasks EXCEPT ![calls[r].taskId] =
                    ApplyPatch(@, RenameAssignee(calls[r].updateData))]
    /\ now' = now + 1
    /\ calls' = [calls EXCEPT ![r].pc = "log"]
    /\ UNCHANGED <<users, projects, activities, ids, res, tokens, localStorage>>

\* Activity.log and the return.
UpdateTaskLog(r) ==
    /\ r \in DOMAIN calls
    /\ calls[r].pc = "log"
    /\ LET task == calls[r].task[1]
       IN  activities' = ActivityLogTask(TaskActionType(task, calls[r].updateData),
                              CastObjectId(calls[r].userId), calls[r].taskId,
                              task.project, task.taskNumber)
    /\ calls' = [calls EXCEPT ![r].pc = "done"]
    /\ res' = Response("updateTask", "ok")
    /\ UNCHANGED <<users, projects, tasks, ids, now, tokens, localStorage>>

\* Project ABC with two tasks, neither done, and completedTaskCount 0.
InitStatusRace ==
    /\ users = [u \in UserIds |->
                   [role |-> CASE u = "u1" -> "admin" [] u = "u2" -> "member"
                                  [] OTHER -> "viewer",
                    isActive |-> TRUE]]
    /\ projects = [p \in {ProjectId(1)} |->
                     [name |-> "Alpha", key |-> "ABC", owner |-> "u1",
                      members |-> << >>, visibility |-> "private",
                      status |-> "active", taskCount |-> 2,
                      completedTaskCount |-> 0]]
    /\ \E status \in [1..2 -> {"todo", "in_progress"}] :
          tasks = [t \in {TaskId(1), TaskId(2)} |->
                     [project |-> ProjectId(1),
                      taskNumber |-> TaskNumber("ABC", t[2]),
                      status |-> status[t[2]], priority |-> "medium",
                      assignee |-> Null, reporter |-> "u1",
                      completedAt |-> NoDate]]
    /\ activities = << >>
    /\ ids = [project |-> 1, task |-> 2]
    /\ now = 0
    /\ res = NoResponse
    /\ calls = EmptyMap
    /\ tokens = {}
    /\ localStorage = NoStorage

StatusPatches == {[status |-> "done"], [status |-> "todo"]}

DoUpdateTaskFindById ==
    \E r \in CallIds, taskId \in {TaskId(1), TaskId(2), GhostTask},
       updateData \in StatusPatches, userId \in Creators :
        UpdateTaskFindById(r, taskId, updateData, userId)

DoUpdateTaskUpdateById == \E r \in CallIds : UpdateTaskUpdateById(r)

DoUpdateTaskLog == \E r \in CallIds : UpdateTaskLog(r)

NextStatusRace ==
    \/ DoUpdateTaskFindById
    \/ DoUpdateTaskUpdateById
    \/ DoUpdateTaskLog

SpecStatusRace == InitStatusRace /\ [][NextStatusRace]_vars

----------------------------------------------------------------------------
(* Task, project and user services together, one request at a time *)

NextLog ==
    \/ DoCreateTask
    \/ DoUpdateTask
    \/ DoDeleteTask
    \/ DoBulkUpdateTasks
    \/ DoUpdateProject
    \/ DoDeleteProject
    \/ DoUpdateRole
    \/ DoDeactivateUser

SpecLog == InitTasks /\ [][NextLog]_vars

----------------------------------------------------------------------------
(* createTask and deleteTask on a project that has tasks *)

\* The database of InitTasks once u1 has created two tasks in project ABC.
InitCount ==
    /\ users = [u \in UserIds |->
                   [role |-> CASE u = "u1" -> "admin" [] u = "u2" -> "member"
                                  [] OTHER -> "viewer",
                    isActive |-> TRUE]]
    /\ projects = [p \in {ProjectId(1), ProjectId(2)} |->
                     [name |-> "Alpha",
                      key |-> IF p = ProjectId(1) THEN "ABC" ELSE "XY",
                      owner |-> "u1",
                      members |-> IF p = ProjectId(1)
                                  THEN <<[user |-> "u3", role |-> "member",
                                          joinedAt |-> 0]>>
                                  ELSE << >>,
                      visibility |-> IF p = ProjectId(1) THEN "private" ELSE "public",
                      status |-> "active",
                      taskCount |-> IF p = ProjectId(1) THEN 2 ELSE 0,
                      completedTaskCount |-> 0]]
    /\ tasks = [t \in {TaskId(1), TaskId(2)} |->
                  [project |-> ProjectId(1),
                   taskNumber |-> TaskNumber("ABC", t[2]),
                   status |-> "todo", priority |-> "medium",
                   assignee |-> Null, reporter |-> "u1",
                   completedAt |-> NoDate]]
    /\ activities = << >>
    /\ ids = [project |-> 2, task |-> 2]
    /\ now = 0
    /\ res = NoResponse
    /\ calls = EmptyMap
    /\ tokens = {}
    /\ localStorage = NoStorage

NextCount == DoCreateTask \/ DoDeleteTask

SpecCount == InitCount /\ [][NextCount]_vars

\* A field a patch does not carry.
Absent == "absent"

\* The PATCH /tasks/:id body carrying the given fields (assignee "null"
\* stands for the JSON null).
MakePatch(status, priority, assignee) ==
    LET fields == (IF status = Absent THEN {} ELSE {"status"}) \cup
                  (IF priority = Absent THEN {} ELSE {"priority"}) \cup
                  (IF assignee = Absent THEN {} ELSE {"assigneeId"})
    IN  [f \in fields |->
            CASE f = "status" -> status
              [] f = "priority" -> priority
              [] OTHER -> IF assignee = Null THEN Null ELSE IdToString(assignee)]

\* The database once one task has been created in project ABC, with any
\* of a few statuses, priorities and assignees; the activity log has been
\* archived.
InitTags ==
    /\ users = [u \in UserIds |->
                   [role |-> CASE u = "u1" -> "admin" [] u = "u2" -> "member"
                                  [] OTHER -> "viewer",
                    isActive |-> TRUE]]
    /\ projects = [p \in {ProjectId(1)} |->
                     [name |-> "Alpha", key |-> "ABC", owner |-> "u1",
                      members |-> << >>, visibility |-> "private",
                      status |-> "active", taskCount |-> 1,
                      completedTaskCount |-> 0]]
    /\ \E status \in {"todo", "done"}, priority \in {"medium", "high"},
          assignee \in {Null, "u1"} :
          tasks = [t \in {TaskId(1)} |->
                     [project |-> ProjectId(1), taskNumber |-> TaskNumber("ABC", 1),
                      status |-> status, priority |-> priority,
                      assignee |-> assignee, reporter |-> "u1",
                      completedAt |-> IF status = "done" THEN DateAt(0) ELSE NoDate]]
    /\ activities = << >>
    /\ ids = [project |-> 1, task |-> 1]
    /\ now = 0
    /\ res = NoResponse
    /\ calls = EmptyMap
    /\ tokens = {}
    /\ localStorage = NoStorage

\* updateTask with every combination of status, priority and assignee in
\* the patch (a patch carries at least one field).
DoUpdateTaskFields ==
    \E taskId \in TaskTargets, userId \in Creators,
       status \in {Absent, "todo", "done", "in_review"},
       priority \in {Absent, "medium", "high"},
       assignee \in {Absent, Null, "u2"} :
        /\ <<status, priority, assignee>> # <<Absent, Absent, Absent>>
        /\ UpdateTask(taskId, MakePatch(status, priority, assignee), userId)

SpecTags == InitTags /\ [][DoUpdateTaskFields]_vars

----------------------------------------------------------------------------
(* Claims about projects, under Spec *)

MemberUsers(p) == {projects[p].members[i].user : i \in DOMAIN projects[p].members}

\* The role the project resolves for a caller (id as the token carries it).
ResolvedRole(pid, actorId) == GetMemberRole(FindProjectById(pid, FALSE), actorId)

\* C11: updateProject succeeds exactly for callers whose resolved role is
\* owner or admin, deleteProject exactly for the owner; every other caller
\* gets Forbidden and the project stays as it was.
C11_MutationGate ==
    [][\A pid \in DOMAIN projects, a \in ActorIds :
          /\ \A patch \in ProjectPatches :
                UpdateProject(pid, patch, a) =>
                    IF ResolvedRole(pid, a) \in {"owner", "admin"}
                    THEN /\ res'.err = "ok"
                         /\ projects' = [projects EXCEPT ![pid] = ApplyPatch(@, patch)]
                    ELSE res'.err = "Forbidden" /\ projects' = projects
          /\ DeleteProject(pid, a) =>
                IF ResolvedRole(pid, a) = "owner"
                THEN res'.err = "ok" /\ pid \notin DOMAIN projects'
                ELSE res'.err = "Forbidden" /\ projects' = projects]_vars

\* C11 witness: a project admin who is not the owner has just updated a
\* project, and that project now holds a plain member as well (whose
\* update and delete requests are the refused ones).
C11_Witness ==
    /\ res = Response("updateProject", "ok")
    /\ activities # << >>
    /\ LET last == activities[Len(activities)]
       IN  /\ last.action = "project.update"
           /\ last.entityId \in DOMAIN projects
           /\ last.actor # projects[last.entityId].owner
           /\ ResolvedRole(last.entityId, IdToString(last.actor)) = "admin"
           /\ \E u \in UserIds : ResolvedRole(last.entityId, IdToString(u)) = "member"

\* The members of project pid that are left once user u is taken out.
MembersWithout(pid, u) ==
    LET Keep(m) == m.user # u
    IN  SelectSeq(projects[pid].members, Keep)

C14_Original ==
    [][(projects' # projects /\ activities' = activities) => res'.err = "ok"]_vars

ProjectOperations ==
    {"createProject", "updateProject", "deleteProject", "addMember",
     "removeMember", "updateMemberRole"}

Rejections == {"NotFound", "Forbidden", "Conflict", "BadRequest"}

\* C27, under Spec: a call of createProject, updateProject, deleteProject,
\* addMember, removeMember or updateMemberRole that is answered NotFound,
\* Forbidden, Conflict or BadRequest leaves every project as it was, adds
\* and removes no project, and appends nothing to the activity log.
C27_RejectionsChangeNothing ==
    [][(res'.op \in ProjectOperations /\ res'.err \in Rejections)
          => (projects' = projects /\ activities' = activities)]_vars

\* C27 witness: after a member was added (one project, one log record), a
\* second addMember for the same user has just been answered Conflict.
C27_Witness ==
    /\ res.op = "addMember"
    /\ res.err = "Conflict"
    /\ Len(activities) >= 2
    /\ \E p \in DOMAIN projects : projects[p].members # << >>

\* C28 as stated, under SpecAddRace: however the membership tests and the
\* writes of two overlapping addMember calls interleave, no user appears
\* more than once in a project's members.
C28_Original ==
    \A p \in DOMAIN projects :
        \A i, j \in DOMAIN projects[p].members :
            projects[p].members[i].user = projects[p].members[j].user => i = j

\* C16: no two projects share a key, also when createProject calls
\* overlap; a call answered Conflict found its key taken and the projects
\* holding the keys are those of the calls that were not refused.
C16_KeysUnique ==
    /\ \A p, q \in DOMAIN projects : projects[p].key = projects[q].key => p = q
    /\ \A r \in DOMAIN calls :
          /\ calls[r].err \in {"ok", "Conflict"}
          /\ calls[r].err = "Conflict" =>
                \E s \in DOMAIN calls \ {r} :
                    /\ calls[s].data.key = calls[r].data.key
                    /\ calls[s].pc \in {"log", "done"} /\ calls[s].err = "ok"
    /\ Cardinality(DOMAIN projects)
          = Cardinality({r \in DOMAIN calls : calls[r].pc \in {"log", "done"}
                                               /\ calls[r].err = "ok"})

\* C16 witness: two calls with the same key both passed the findByKey
\* test; one inserted the project, the other was refused by the index
\* with Conflict.
C16_Witness ==
    \E r, s \in DOMAIN calls :
        /\ calls[r].data.key = calls[s].data.key
        /\ calls[r].pc = "done" /\ calls[r].err = "ok"
        /\ calls[s].pc = "done" /\ calls[s].err = "Conflict"
        /\ calls[s].thrownBy = "create"
        /\ \E t \in DOMAIN calls :
              calls[t].err = "Conflict" /\ calls[t].thrownBy = "findByKey"

\* C7 as stated: on a private project getProjectById is denied to a caller
\* who is neither owner nor member and succeeds for a caller who is
\* currently a member (so it succeeds after addMember and is denied again
\* after removeMember); on a public project it succeeds for every caller.
C7_Original ==
    [][\A pid \in DOMAIN projects, u \in UserIds :
          (GetProjectById(pid, IdToString(u)) /\ u # projects[pid].owner)
              => (res'.err = "ok" <=> (\/ projects[pid].visibility = "public"
                                       \/ u \in MemberUsers(pid)))]_vars

\* C8 as stated: in every project the owner is not listed in members and
\* no user is listed twice.
C8_Original ==
    \A p \in DOMAIN projects :
        /\ projects[p].owner \notin MemberUsers(p)
        /\ \A i, j \in DOMAIN projects[p].members :
              projects[p].members[i].user = projects[p].members[j].user => i = j

\* The requests C9 is about: the target is the project's owner, named by
\* the id string m.
RemovesOwner(pid, m, a) ==
    CastObjectId(m) = projects[pid].owner /\ RemoveMember(pid, m, a)
ReRolesOwner(pid, m, r, a) ==
    CastObjectId(m) = projects[pid].owner /\ UpdateMemberRole(pid, m, r, a)

\* C9 as stated: removeMember and updateMemberRole aimed at the owner fail
\* with BadRequest whoever the caller is, and change nothing.
C9_Original ==
    [][\A pid \in DOMAIN projects, a \in ActorIds :
          LET m == IdToString(projects[pid].owner)
          IN  /\ RemovesOwner(pid, m, a)
                   => (res'.err = "BadRequest" /\ projects' = projects)
              /\ \A r \in MemberRoleInputs :
                   ReRolesOwner(pid, m, r, a)
                       => (res'.err = "BadRequest" /\ projects' = projects)]_vars

\* C9 as amended: both calls always fail and leave owner and members as
\* they were.  The error is BadRequest when the caller passes the
\* permission check that runs first (removeMember: the owner or a project
\* admin; updateMemberRole: the owner) and the owner is named by the id as
\* stored; a caller who fails that check gets Forbidden, and another
\* spelling of the owner's id gets NotFound.
C9_OwnerProtected ==
    [][\A pid \in DOMAIN projects, a \in ActorIds :
          LET doc == FindProjectById(pid, FALSE)
              owner == IdToString(projects[pid].owner)
              Expected(m, passes) ==
                  IF ~passes THEN "Forbidden"
                  ELSE IF m = owner THEN "BadRequest" ELSE "NotFound"
          IN  \A m \in HexStrings({projects[pid].owner}) :
                /\ RemovesOwner(pid, m, a)
                     => /\ projects' = projects
                        /\ res'.err = Expected(m, a = m \/ OwnerOrAdmin(doc, a))
                /\ \A r \in MemberRoleInputs :
                     ReRolesOwner(pid, m, r, a)
                         => /\ projects' = projects
                            /\ res'.err = Expected(m, a = owner)]_vars

\* C9 witness: removeMember has just answered BadRequest (it does so only
\* for the owner) on a project that has a member besides the owner.
C9_Witness ==
    /\ res = Response("removeMember", "BadRequest")
    /\ \E p \in DOMAIN projects : projects[p].members # << >>

\* C10: getMemberRole(P, U) is 'owner' exactly when U is P's owner; for
\* any other U it is the role stored for U in P.members (the first entry,
\* were U listed more than once), and null when U has no entry.
C10_RoleResolution ==
    \A p \in DOMAIN projects, u \in UserIds \cup {GhostUser} :
        LET role == GetMemberRole(FindProjectById(p, FALSE), IdToString(u))
            entries == {i \in DOMAIN projects[p].members :
                           projects[p].members[i].user = u}
        IN  /\ role = "owner" <=> u = projects[p].owner
            /\ u # projects[p].owner =>
                  IF entries = {} THEN role = Null
                  ELSE role = projects[p].members[Min(entries)].role

\* C10 witness: a project whose owner resolves to 'owner', one of whose
\* members resolves to the stored role 'admin', and a user without entry
\* who resolves to null.
C10_Witness ==
    \E p \in DOMAIN projects :
        LET doc == FindProjectById(p, FALSE)
        IN  /\ GetMemberRole(doc, IdToString(projects[p].owner)) = "owner"
            /\ \E u \in MemberUsers(p) \ {projects[p].owner} :
                   GetMemberRole(doc, IdToString(u)) = "admin"
            /\ \E u \in UserIds \ MemberUsers(p) :
                   GetMemberRole(doc, IdToString(u)) = Null

----------------------------------------------------------------------------
(* Dashboard *)

NoHours == << >>
Hours(h) == <<h>>
\* {$ifNull: ['$estimatedHours', 0]}
IfNullHours(h) == IF h = NoHours THEN 0 ELSE h[1]

MatchedAnyStatus(pid) == {t \in DOMAIN tasks : tasks[t].project = pid}

\* $match: the tasks of the project whose status is not done or cancelled.
Matched(pid) ==
    {t \in DOMAIN tasks :
        tasks[t].project = pid /\ tasks[t].status \notin {"done", "cancelled"}}

\* $group by assignee: the tasks of one group.
Group(pid, assignee) == {t \in Matched(pid) : tasks[t].assignee = assignee}

RECURSIVE SumEstimatedHours(_)
SumEstimatedHours(S) ==
    IF S = {} THEN 0
    ELSE LET t == CHOOSE x \in S : TRUE
         IN  IfNullHours(tasks[t].estimatedHours) + SumEstimatedHours(S \ {t})

\* One item of the answer: the $lookup finds the user of the group's id or
\* nothing, and the map counts the pushed priorities and statuses.
WorkloadItem(pid, assignee) ==
    LET g == Group(pid, assignee)
        ByPriority(p) == Cardinality({t \in g : tasks[t].priority = p})
        ByStatus(st) == Cardinality({t \in g : tasks[t].status = st})
    IN  [user |-> IF assignee \in DOMAIN users THEN assignee ELSE "Unassigned",
         totalTasks |-> Cardinality(g),
         totalEstimatedHours |-> SumEstimatedHours(g),
         priorityBreakdown |->
             [urgent |-> ByPriority("urgent"), high |-> ByPriority("high"),
              medium |-> ByPriority("medium"), low |-> ByPriority("low")],
         statusBreakdown |->
             [backlog |-> ByStatus("backlog"), todo |-> ByStatus("todo"),
              in_progress |-> ByStatus("in_progress"),
              in_review |-> ByStatus("in_review")]]

\* DashboardService.getProjectWorkload(projectId); $sort leaves the order
\* of groups of equal size open.
GetProjectWorkload(projectId) ==
    LET pid == CastObjectId(projectId)
        groups == {tasks[t].assignee : t \in Matched(pid)}
    IN  /\ \E order \in [1..Cardinality(groups) -> groups] :
              /\ \A i, j \in DOMAIN order : i # j => order[i] # order[j]
              /\ \A i, j \in DOMAIN order :
                    i < j => Cardinality(Group(pid, order[i]))
                                >= Cardinality(Group(pid, order[j]))
              /\ res' = [op |-> "getProjectWorkload", err |-> "ok",
                         projectId |-> pid,
                         workload |-> [i \in DOMAIN order |->
                                          WorkloadItem(pid, order[i])]]
        /\ UNCHANGED <<users, projects, tasks, activities, ids, now, calls, tokens, localStorage>>

WorkloadAssignees == {Null, "u1", GhostUser}

\* Two projects and four tasks: two tasks of ABC with any status, priority
\* and assignee (a user, nobody, or a user whose document is gone), one
\* task of either project, and one finished task of ABC.
InitWorkload ==
    /\ users = [u \in UserIds |->
                   [role |-> CASE u = "u1" -> "admin" [] u = "u2" -> "member"
                                  [] OTHER -> "viewer",
                    isActive |-> TRUE]]
    /\ projects = [p \in {ProjectId(1), ProjectId(2)} |->
                     [name |-> IF p[2] = 1 THEN "Alpha" ELSE "Beta",
                      key |-> IF p[2] = 1 THEN "ABC" ELSE "XY",
                      owner |-> "u1", members |-> << >>,
                      visibility |-> "private", status |-> "active",
                      taskCount |-> IF p[2] = 1 THEN 4 ELSE 0,
                      completedTaskCount |-> 0, updatedAt |-> 0]]
    /\ \E status \in [1..2 -> TaskStatuses], priority \in [1..2 -> Priorities],
          assignee \in [1..2 -> WorkloadAssignees],
          status3 \in {"todo", "cancelled"}, assignee3 \in {Null, "u1"},
          project3 \in {ProjectId(1), ProjectId(2)} :
          tasks = [t \in {TaskId(1), TaskId(2), TaskId(3), TaskId(4)} |->
                     [project |-> IF t[2] = 3 THEN project3 ELSE ProjectId(1),
                      taskNumber |-> TaskNumber("ABC", t[2]),
                      status |-> CASE t[2] = 3 -> status3 [] t[2] = 4 -> "done"
                                   [] OTHER -> status[t[2]],
                      priority |-> CASE t[2] = 3 -> "urgent" [] t[2] = 4 -> "high"
                                     [] OTHER -> priority[t[2]],
                      assignee |-> CASE t[2] = 3 -> assignee3 [] t[2] = 4 -> "u1"
                                     [] OTHER -> assignee[t[2]],
                      reporter |-> "u1",
                      estimatedHours |-> IF t[2] = 1 THEN NoHours ELSE Hours(t[2]),
                      completedAt |-> NoDate]]
    /\ activities = << >>
    /\ ids = [project |-> 2, task |-> 4]
    /\ now = 0
    /\ res = NoResponse
    /\ calls = EmptyMap
    /\ tokens = {}
    /\ localStorage = NoStorage

DoGetProjectWorkload ==
    \E pid \in {ProjectId(1), ProjectId(2), GhostProject} :
        GetProjectWorkload(IdToString(pid))

SpecWorkload == InitWorkload /\ [][DoGetProjectWorkload]_vars

----------------------------------------------------------------------------
(* Claims about the dashboard, under SpecWorkload *)

RECURSIVE SumTotalTasks(_)
SumTotalTasks(workload) ==
    IF workload = << >> THEN 0
    ELSE Head(workload).totalTasks + SumTotalTasks(Tail(workload))

\* The tasks of the project that are not done or cancelled.
OpenTasks(pid) ==
    {t \in DOMAIN tasks :
        tasks[t].project = pid /\ tasks[t].status # "done"
                               /\ tasks[t].status # "cancelled"}

OpenTasksOf(pid, assignee) == {t \in OpenTasks(pid) : tasks[t].assignee = assignee}

\* C20: the answer of getProjectWorkload has one bucket for each assignee
\* (nobody included) holding an open task of the project, that bucket
\* counts exactly the assignee's open tasks, the buckets together count
\* every open task of the project once and no other task, each bucket's
\* total is the sum of its priority counts and of its status counts, and
\* the totals never increase along the answer.
C20_WorkloadBuckets ==
    res.op = "getProjectWorkload" =>
        LET w == res.workload
            holders == {tasks[t].assignee : t \in OpenTasks(res.projectId)}
        IN  /\ Len(w) = Cardinality(holders)
            /\ SumTotalTasks(w) = Cardinality(OpenTasks(res.projectId))
            /\ \A a \in holders : \E i \in DOMAIN w :
                  /\ w[i].user = (IF a \in DOMAIN users THEN a ELSE "Unassigned")
                  /\ w[i].totalTasks = Cardinality(OpenTasksOf(res.projectId, a))
            /\ \A i \in DOMAIN w :
                  /\ w[i].totalTasks > 0
                  /\ w[i].totalTasks = w[i].priorityBreakdown.urgent
                        + w[i].priorityBreakdown.high
                        + w[i].priorityBreakdown.medium + w[i].priorityBreakdown.low
                  /\ w[i].totalTasks = w[i].statusBreakdown.backlog
                        + w[i].statusBreakdown.todo
                        + w[i].statusBreakdown.in_progress
                        + w[i].statusBreakdown.in_review
            /\ \A i, j \in DOMAIN w : i < j => w[i].totalTasks >= w[j].totalTasks

\* C20 witness: project ABC has a finished task and three open ones, two
\* of a user and one of nobody; the answer lists the user's bucket with 2
\* before the bucket of the unassigned with 1.
C20_Witness ==
    /\ res.op = "getProjectWorkload"
    /\ res.projectId = ProjectId(1)
    /\ \E t \in DOMAIN tasks :
          tasks[t].project = ProjectId(1) /\ tasks[t].status \in {"done", "cancelled"}
    /\ Len(res.workload) = 2
    /\ res.workload[1].user = "u1" /\ res.workload[1].totalTasks = 2
    /\ res.workload[2].user = "Unassigned" /\ res.workload[2].totalTasks = 1
    /\ Cardinality(OpenTasksOf(ProjectId(1), Null)) = 1

----------------------------------------------------------------------------
(* Claims about the activity log, under SpecLog *)

\* C25: the activity log only grows: whatever a service operation does,
\* every record written before is still there, in its place and with the
\* fields it was written with, and new records come after them.
C25_AppendOnly ==
    [][/\ Len(activities') >= Len(activities)
       /\ SubSeq(activities', 1, Len(activities)) = activities]_vars

\* C25 witness: the log holds a record of the task service, one of the
\* project service and one of the user service, and a project that a
\* record names has been deleted since.
C25_Witness ==
    /\ Len(activities) >= 3
    /\ \E i, j, k \in DOMAIN activities :
          /\ activities[i].entityType = "task"
          /\ activities[j].entityType = "project"
          /\ activities[k].entityType = "user"
    /\ \E i \in DOMAIN activities :
          /\ activities[i].project # Null
          /\ activities[i].project \notin DOMAIN projects

----------------------------------------------------------------------------
(* Claims about the request gates, under SpecGate *)

\* C29: a request is authenticated exactly when its access token has not
\* expired, and is then let through or refused by the role gate on the role
\* written in the token; the stored user (role changed, deactivated) has no
\* part in the answer.
C29_TokenDecides ==
    res.op = "request" =>
        /\ res.err = GateAnswer(res.token, res.token.role, res.gate)
        /\ res.err = "Unauthorized" <=> ~VerifyAccessToken(res.token)

\* C29 witness: a member logged in and was then deactivated; a request
\* with the access token of that login has just passed the gate that asks
\* for a member.
C29_Witness ==
    /\ res.op = "request"
    /\ res.err = "ok"
    /\ res.gate.kind = "authorizeMinRole"
    /\ res.token.role = "member"
    /\ ~users[res.token.userId].isActive

----------------------------------------------------------------------------
(* Claims about the web client, under SpecClient *)

\* No request has run the catch block or had its retry refused, and
\* localStorage holds both tokens.
StillLoggedIn ==
    /\ \A q \in DOMAIN calls : calls[q].pc \notin {"loggedOut", "refused", "rejected"}
    /\ localStorage.accessToken # << >>
    /\ localStorage.refreshToken # << >>

\* Both requests were sent again with an access token the server accepted.
BothRetried ==
    /\ DOMAIN calls = ClientRequests
    /\ \A q \in ClientRequests : calls[q].pc = "done" /\ calls[q].status = 200

----------------------------------------------------------------------------
(* Claims about search, under SpecSearch *)

\* The caller is the owner or one of the members of project p.
OwnsOrJoined(p, userId) ==
    \/ projects[p].owner = CastObjectId(userId)
    \/ CastObjectId(userId) \in MemberUsers(p)

----------------------------------------------------------------------------
(* Claims about refresh tokens, under SpecAuth *)

\* C17 as stated: refresh tokens are rotated on use, so refreshTokens
\* accepts only the refresh token most recently issued to the user (a
\* token that was already exchanged for a new pair is refused).
C17_Original ==
    [][\A token \in tokens :
          (RefreshTokens(token) /\ res'.err = "ok")
              => \A other \in tokens :
                    other.userId = token.userId => other.iat <= token.iat]_vars

\* The session events of user u in the activity log, oldest first.
SessionEvents(u) ==
    LET Hit(a) == a.actor = u /\ a.action \in {"user.login", "user.logout",
                                               "user.password_change"}
    IN  SelectSeq(activities, Hit)

\* User u has logged out or changed password and not logged in since.
SignedOut(u) ==
    /\ SessionEvents(u) # << >>
    /\ SessionEvents(u)[Len(SessionEvents(u))].action
          \in {"user.logout", "user.password_change"}

\* C18: once a user has logged out or changed password, and until that
\* user logs in again, refreshTokens with any refresh token issued to the
\* user is answered Unauthorized and issues nothing.
C18_RevokedUntilLogin ==
    [][\A token \in tokens :
          (SignedOut(token.userId) /\ RefreshTokens(token))
              => /\ res'.err = "Unauthorized"
                 /\ tokens' = tokens
                 /\ users' = users]_vars

\* C18 witness: a user who holds refresh tokens has changed password, and
\* the refreshTokens call that followed was answered Unauthorized (every
\* token issued so far is that user's).
C18_Witness ==
    /\ res = Response("refreshTokens", "Unauthorized")
    /\ tokens # {}
    /\ activities # << >>
    /\ activities[Len(activities)].action = "user.password_change"
    /\ \A token \in tokens : token.userId = activities[Len(activities)].actor

----------------------------------------------------------------------------
(* Claims about tasks, under SpecTasks *)

\* The log entries of one action about the tasks of project p, oldest
\* first.
TaskEntries(p, action) ==
    LET Hit(a) == a.entityType = "task" /\ a.project = p /\ a.action = action
    IN  SelectSeq(activities, Hit)

\* C1: in a project where no task has been deleted, the i-th task created
\* holds the number K-i, K being the project's key: N creations give
\* K-1 .. K-N in creation order, without duplicate and without gap.
C1_SequentialNumbers ==
    \A p \in DOMAIN projects :
        TaskEntries(p, "task.delete") = << >> =>
            LET created == TaskEntries(p, "task.create")
            IN  /\ Len(created) = CountTasks(p)
                /\ \A i \in DOMAIN created :
                      /\ created[i].entityId \in DOMAIN tasks
                      /\ tasks[created[i].entityId].taskNumber
                             = TaskNumber(projects[p].key, i)

\* C1 witness: three tasks created in ABC, none deleted, and the third
\* holds ABC-3.
C1_Witness ==
    \E p \in DOMAIN projects :
        /\ TaskEntries(p, "task.delete") = << >>
        /\ Len(TaskEntries(p, "task.create")) = 3
        /\ res = Response("createTask", "ok")
        /\ \E t \in DOMAIN tasks : tasks[t].taskNumber = TaskNumber("ABC", 3)

\* C2 as stated: once a task of a project has been deleted, a createTask
\* in that project succeeds and its number is greater than every number
\* assigned in the project before.
C2_Original ==
    [][\A pid \in DOMAIN projects, status \in CreateStatuses,
          reporterId \in MemberActorIds :
          LET assigned == {activities[i].taskNumber[2] :
                              i \in {j \in DOMAIN activities :
                                        /\ activities[j].action = "task.create"
                                        /\ activities[j].project = pid}}
              Accepted ==
                  IsMember(FindProjectById(pid, FALSE), reporterId)
                      \/ projects[pid].visibility = "public"
          IN  (/\ TaskEntries(pid, "task.delete") # << >>
               /\ Accepted
               /\ CreateTask([projectId |-> IdToString(pid), status |-> status,
                              priority |-> "medium"], reporterId))
                  => /\ res'.err = "ok"
                     /\ \A t \in DOMAIN tasks' \ DOMAIN tasks :
                           \A n \in assigned : tasks'[t].taskNumber[2] > n]_vars

\* Two calls have returned after computing the same taskNumber.
RacedOnNumber(r, s) ==
    /\ r # s
    /\ calls[r].pc = "done" /\ calls[s].pc = "done"
    /\ calls[r].number # NoTaskNumber
    /\ calls[r].number = calls[s].number

\* C21 as stated, under SpecCreateTask: when two createTask calls of one
\* project have computed the same taskNumber from the same count, both
\* complete and two stored tasks carry that taskNumber.
C21_Original ==
    \A r, s \in DOMAIN calls :
        RacedOnNumber(r, s) =>
            /\ calls[r].err = "ok" /\ calls[s].err = "ok"
            /\ \E t, u \in DOMAIN tasks :
                  /\ t # u
                  /\ tasks[t].taskNumber = calls[r].number
                  /\ tasks[u].taskNumber = calls[r].number

\* C21 amended, under SpecCreateTask: two overlapping createTask calls can
\* compute the same taskNumber, but the unique index lets one insert in;
\* the others are answered Conflict, no two stored tasks share a
\* taskNumber, and the project's taskCount has counted the refused calls.
C21_OneInsertWins ==
    /\ \A t, u \in DOMAIN tasks : tasks[t].taskNumber = tasks[u].taskNumber => t = u
    /\ \A r, s \in DOMAIN calls :
          RacedOnNumber(r, s) => calls[r].err = "Conflict" \/ calls[s].err = "Conflict"
    /\ \A r \in DOMAIN calls :
          calls[r].err = "Conflict" =>
              \E t \in DOMAIN tasks : tasks[t].taskNumber = calls[r].number

\* C21 witness: two calls computed the same taskNumber; one stored its
\* task, the other was answered Conflict, and taskCount of the project is
\* one more than its stored tasks.
C21_Witness ==
    \E r, s \in DOMAIN calls :
        /\ RacedOnNumber(r, s)
        /\ calls[r].err = "ok" /\ calls[s].err = "Conflict"
        /\ \E t \in DOMAIN tasks :
              /\ tasks[t].taskNumber = calls[r].number
              /\ projects[tasks[t].project].taskCount
                    = CountTasks(tasks[t].project) + 1

\* The stored tasks of project p whose status is done.
DoneTasks(p) == {t \in DOMAIN tasks : tasks[t].project = p /\ tasks[t].status = "done"}

\* C23 as stated, under SpecTasks: after any sequence of createTask,
\* updateTask, bulkUpdateTasks and deleteTask calls run one at a time, each
\* project's completedTaskCount is the number of its stored tasks whose
\* status is done.
C23_Original ==
    \A p \in DOMAIN projects :
        projects[p].completedTaskCount = Cardinality(DoneTasks(p))

\* Every request of the run has been received and has returned.
AllReturned ==
    /\ DOMAIN calls = CallIds
    /\ \A r \in DOMAIN calls : calls[r].pc = "done"

\* C24 as stated, under SpecStatusRace: once all the overlapping requests
\* that move tasks of a project to or from done have completed, the
\* project's completedTaskCount is the number of its tasks that are done.
C24_Original ==
    AllReturned =>
        \A p \in DOMAIN projects :
            projects[p].completedTaskCount = Cardinality(DoneTasks(p))

\* C26 as stated, under SpecCount: after any sequence of createTask and
\* deleteTask calls run one at a time, failed createTask calls included,
\* each project's taskCount is the number of its stored tasks.
C26_Original ==
    \A p \in DOMAIN projects : projects[p].taskCount = CountTasks(p)

\* C13 as stated: every successful mutating operation appends exactly one
\* activity record, which names the caller and the entity it changed.
C13_Original ==
    [][(/\ res'.err = "ok"
        /\ (tasks' # tasks \/ projects' # projects \/ users' # users))
          => /\ Len(activities') = Len(activities) + 1
             /\ SubSeq(activities', 1, Len(activities)) = activities
             /\ activities'[Len(activities')].actor \in UserIds
             /\ activities'[Len(activities')].entityId
                    \in DOMAIN tasks \cup DOMAIN tasks']_vars

\* What a patch changes on a task, as updateTask tests it.
ChangesStatus(task, patch) ==
    "status" \in DOMAIN patch /\ patch.status # task.status
ChangesPriority(task, patch) ==
    "priority" \in DOMAIN patch /\ patch.priority # task.priority
Assigns(task, patch) ==
    "assigneeId" \in DOMAIN patch /\ patch.assigneeId # Null /\ task.assignee = Null
Unassigns(task, patch) ==
    "assigneeId" \in DOMAIN patch /\ patch.assigneeId = Null /\ task.assignee # Null

\* The tag by the priority assignment change > status change > priority
\* change > generic update.
StatedTag(task, patch) ==
    IF Assigns(task, patch) THEN "task.assign"
    ELSE IF Unassigns(task, patch) THEN "task.unassign"
    ELSE IF ChangesStatus(task, patch) THEN "task.status_change"
    ELSE IF ChangesPriority(task, patch) THEN "task.priority_change"
    ELSE "task.update"

\* The tag by the priority priority change > assign / unassign > status
\* change > generic update.
PriorityFirstTag(task, patch) ==
    IF ChangesPriority(task, patch) THEN "task.priority_change"
    ELSE IF Assigns(task, patch) THEN "task.assign"
    ELSE IF Unassigns(task, patch) THEN "task.unassign"
    ELSE IF ChangesStatus(task, patch) THEN "task.status_change"
    ELSE "task.update"

\* The step is updateTask(t, patch) and appends an entry of action tag.
UpdateLogs(t, patch, userId, tag) ==
    UpdateTask(t, patch, userId) => activities'[Len(activities')].action = tag

C5_Original ==
    \A t \in DOMAIN tasks : tasks[t].completedAt # NoDate <=> tasks[t].status = "done"

\* The caller has no resolved role in project pid.
NoProjectRole(pid, actorId) ==
    GetMemberRole(FindProjectById(pid, FALSE), actorId) = Null

\* C6 as stated: createTask, updateTask, deleteTask and bulkUpdateTasks by
\* a caller without a resolved role in the task's project are rejected and
\* leave every task unchanged.
C6_Original ==
    [][/\ \A pid \in DOMAIN projects, status \in CreateStatuses,
            reporterId \in MemberActorIds :
            (/\ NoProjectRole(pid, reporterId)
             /\ CreateTask([projectId |-> IdToString(pid), status |-> status,
                            priority |-> "medium"], reporterId))
                => (res'.err # "ok" /\ tasks' = tasks)
       /\ \A t \in DOMAIN tasks, userId \in ActorIds :
            /\ \A updateData \in TaskPatches :
                 (NoProjectRole(tasks[t].project, userId) /\ UpdateTask(t, updateData, userId))
                     => (res'.err # "ok" /\ tasks' = tasks)
            /\ (NoProjectRole(tasks[t].project, userId) /\ DeleteTask(t, userId))
                     => (res'.err # "ok" /\ tasks' = tasks)
       /\ \A t \in DOMAIN tasks, updates \in BulkUpdates, userId \in MemberActorIds :
            (NoProjectRole(tasks[t].project, userId) /\ BulkUpdateTasks({t}, updates, userId))
                => (res'.err # "ok" /\ tasks' = tasks)]_vars

----------------------------------------------------------------------------
(* Claims about users, under SpecUsers *)

\* Call r has committed the removal of an admin after reading two admins.
RemovedAdminOfTwo(r) ==
    /\ calls[r].pc \in {"log", "done"}
    /\ calls[r].err = "ok"
    /\ calls[r].counted
    /\ calls[r].count = 2

\* C22, under SpecAdminRace: a call is refused as last-admin change only on
\* the count it read, never on the table as it is when it writes; so when
\* two calls that demote or deactivate different admins have both read two
\* admins, both commit and no active admin is left.
C22_BothPassBothCommit ==
    /\ \A r \in DOMAIN calls :
          /\ calls[r].err = "BadRequest" => calls[r].counted /\ calls[r].count = 1
          /\ (calls[r].counted /\ calls[r].count > 1 /\ calls[r].pc = "done")
                => calls[r].err = "ok"
    /\ \A r, s \in DOMAIN calls :
          (RemovedAdminOfTwo(r) /\ RemovedAdminOfTwo(s)
             /\ calls[r].userId # calls[s].userId) => ActiveAdmins = {}

\* C22 witness: two calls on different admins both read two admins, both
\* returned without error, and no active admin is left.
C22_Witness ==
    \E r, s \in DOMAIN calls :
        /\ calls[r].userId # calls[s].userId
        /\ RemovedAdminOfTwo(r) /\ calls[r].pc = "done" /\ calls[r].op = "updateRole"
        /\ RemovedAdminOfTwo(s) /\ calls[s].pc = "done" /\ calls[s].op = "deactivateUser"
        /\ ActiveAdmins = {}

\* C3: starting with at least one active admin, after any sequence of
\* updateRole and deactivateUser calls run one at a time there is still a
\* user whose role is admin and who is active.
C3_ActiveAdminRemains == ActiveAdmins # {}

\* C3 witness: an admin has just been deactivated and exactly one active
\* admin is left.
C3_Witness ==
    /\ res = Response("deactivateUser", "ok")
    /\ activities # << >>
    /\ LET last == activities[Len(activities)]
       IN  /\ last.action = "user.delete"
           /\ users[last.entityId].role = "admin"
           /\ ~users[last.entityId].isActive
    /\ Cardinality(ActiveAdmins) = 1

\* The calls the last-admin rule is about: the only active admin is demoted
\* or deactivated.
DemotesLastAdmin(u, r, a) == ActiveAdmins = {u} /\ r # "admin" /\ UpdateRole(u, r, a)
DeactivatesLastAdmin(u, a) == ActiveAdmins = {u} /\ DeactivateUser(u, a)

====
